---- MODULE Spec2Model ----
(***************************************************************************)
(* Model of the capscr plugin subsystem (src/src/plugin): the manager's    *)
(* loaded / discovered sets, discovery, load, unload, teardown and event   *)
(* dispatch over a small plugins root directory (Spec), the WASM sandbox  *)
(* of one plugin under such a manager (SpecWasm), the manifest checks on   *)
(* their own (SpecManifest), and loading and installing over plugins roots *)
(* with packages and archives that fail (SpecLoad).                        *)
(***************************************************************************)
EXTENDS Integers, Sequences, FiniteSets, TLC

\* ------------------------------------------------------------------------
\* Bounds of the exploration
\* ------------------------------------------------------------------------
\* on_event deliveries explored per plugin instance
MaxEvents == 1
\* on_event deliveries explored per plugin instance next to a sandboxed plugin
MaxWasmEvents == 2

\* plugin ids that occur in manifests; install_from_zip installs into the
\* directory named after the id, so the directory names are the same names
Ids == {"a", "b", "c"}
DirNames == Ids
ZipNames == {"z"}
EntryNames == DirNames \cup ZipNames

NoDir == [id |-> "none", ver |-> 0, man |-> "nodir", lib |-> "none", builds |-> FALSE]
NoZip == [arch |-> "nozip", pkg |-> NoDir]

\* A package: what a plugin directory (or an archive) holds.
\*   man    : outcome class of reading + validating the manifest
\*   lib    : library entry for this platform / library file on disk
\*   builds : whether the backend (dlopen + create_plugin, or the WASM
\*            sandbox) can be constructed from the library file
Pkg(id, ver, man, lib, builds) ==
    [id |-> id, ver |-> ver, man |-> man, lib |-> lib, builds |-> builds]
GoodPkg(id, ver) == Pkg(id, ver, "ok", "present", TRUE)

\* ------------------------------------------------------------------------
\* Events and responses
\* ------------------------------------------------------------------------
EventKinds == {"PreCapture", "PostCapture", "PreSave", "PostSave", "PreUpload", "PostUpload"}
ImageKinds == {"PostCapture", "PreSave", "PreUpload"}
PluginEvent == {[kind |-> k, image |-> IF k \in ImageKinds THEN "img0" ELSE "none"] : k \in EventKinds}

Continue == [tag |-> "Continue", image |-> "none"]
Cancel == [tag |-> "Cancel", image |-> "none"]
ModifiedImage(img) == [tag |-> "ModifiedImage", image |-> img]
\* An on_event answer as the plugin code decides it. A ModifiedImage carries a
\* freshly allocated image, which is named here after the plugin that made it.
Answers == {"Continue", "Cancel", "ModifiedImage"}
ResponseOf(id, answer) ==
    IF answer = "Cancel" THEN Cancel
    ELSE IF answer = "ModifiedImage" THEN ModifiedImage(id)
    ELSE Continue

\* Option<T>
None == [some |-> FALSE]
Some(x) == [some |-> TRUE, val |-> x]

Ok == [tag |-> "Ok", err |-> "none"]
\* load_all and load_pending return the list of errors, kept in errors
ErrorList == [tag |-> "Errors", err |-> "none"]
Err(e) == [tag |-> "Err", err |-> e]
\* a call that did not return: a panic unwound through it
Panicked == [tag |-> "Panic", err |-> "none"]

\* ------------------------------------------------------------------------
\* State
\* ------------------------------------------------------------------------
VARIABLES
    dirs,          \* plugins root: directory name -> package or NoDir
    zips,          \* plugins root: archive name -> archive or NoZip
    plugins,       \* PluginManager.plugins    : Seq of [manifest, handle]
    discovered,    \* PluginManager.discovered : Seq of [manifest, directory]
    enabled,       \* PluginManager.enabled
    lazy_loading,  \* PluginManager.lazy_loading
    op,            \* the call that produced this state: [name, arg]
    ret,           \* its return value
    errors,        \* error strings it returned (load_all, load_pending) or logged (dispatch)
    calls,         \* on_event invocations it made, in order: [id, event, response]
    released,      \* handles it disposed of, each with the callbacks it had seen
    teardown,      \* what it did to the handles it disposed of, in order: [id, ev]
    sandbox,       \* the WasmPlugin of a sandboxed plugin: module, store fuel, WasmState
    wcall,         \* the last call into the sandbox, as the host saw it
    written,       \* locations it created or wrote in the file system, resolved
    overflow_checks \* the host is a build with integer overflow checks (debug-assertions)

vars == <<dirs, zips, plugins, discovered, enabled, lazy_loading, op, ret, errors, calls, released,
          teardown, sandbox, wcall, written, overflow_checks>>

\* the manager of a plugins root without sandboxed plugins has no WasmPlugin
NoSandbox == [status |-> "none"]

\* ------------------------------------------------------------------------
\* Plugin handle: the callbacks delivered to one plugin object, in order
\* ------------------------------------------------------------------------
NewHandle == [trace |-> <<>>]
OnLoad(h) == [h EXCEPT !.trace = Append(@, "on_load")]
OnEvent(h) == [h EXCEPT !.trace = Append(@, "on_event")]
OnUnload(h) == [h EXCEPT !.trace = Append(@, "on_unload")]

\* Dropping a PluginHandle::Native { plugin, _library }: the fields go in the
\* order of their declaration, the boxed plugin object first, the library last.
DisposeLibraryFirst(id) ==
    <<[id |-> id, ev |-> "release_library"], [id |-> id, ev |-> "drop_plugin"]>>

Dispose(id) ==
    <<[id |-> id, ev |-> "drop_plugin"], [id |-> id, ev |-> "release_library"]>>

Manifest(pkg) == [id |-> pkg.id, ver |-> pkg.ver]

RECURSIVE CountOf(_, _)
CountOf(s, x) ==
    IF s = <<>> THEN 0 ELSE (IF Head(s) = x THEN 1 ELSE 0) + CountOf(Tail(s), x)

HasId(seq, id) == \E i \in DOMAIN seq : seq[i].manifest.id = id

RECURSIVE RetainNotId(_, _)
RetainNotId(seq, id) ==
    IF seq = <<>> THEN <<>>
    ELSE IF Head(seq).manifest.id # id
         THEN <<Head(seq)>> \o RetainNotId(Tail(seq), id)
         ELSE RetainNotId(Tail(seq), id)

\* ------------------------------------------------------------------------
\* Manifest and loader
\* ------------------------------------------------------------------------
\* PluginManifest::from_directory, validate, is_compatible, and the library
\* resolution that both the loader and discovery perform.
ResolveLibrary(ds, d) ==
    LET p == ds[d] IN
    IF p.man = "nodir" \/ p.man = "missing" THEN Err("NoManifest")
    ELSE IF p.man = "unparsable" THEN Err("ManifestParseError")
    ELSE IF p.man = "invalid" THEN Err("ManifestValidationError")
    ELSE IF p.man = "incompatible" THEN Err("Incompatible")
    ELSE IF p.lib = "noentry" THEN Err("MissingLibraryForPlatform")
    ELSE IF p.lib = "nofile" THEN Err("LibraryNotFound")
    ELSE Ok

\* PluginLoader::load_from_directory
LoaderLoadFromDirectory(ds, d) ==
    LET r == ResolveLibrary(ds, d) IN
    IF r.tag = "Err" THEN [res |-> r, loaded |-> NoDir]
    ELSE IF ~ds[d].builds THEN [res |-> Err("LoadError"), loaded |-> NoDir]
    ELSE [res |-> Ok, loaded |-> [manifest |-> Manifest(ds[d]), handle |-> NewHandle]]

\* Paths are sequences of components: "/" is the root directory, ".." the
\* parent directory, "." the directory itself.
PluginsRoot == <<"/", "plugins">>
\* self.plugins_dir.join(&manifest.plugin.id)
PluginDir(id) == Append(PluginsRoot, id)
\* Path::join : an absolute path replaces the base
Join(base, path) == IF path # <<>> /\ path[1] = "/" THEN path ELSE base \o path
\* the location the file system resolves a path to
RECURSIVE Resolve(_, _)
Resolve(done, path) ==
    IF path = <<>> THEN done
    ELSE LET c == Head(path) IN
         Resolve(IF c = "." THEN done
                 ELSE IF c = ".." THEN (IF Len(done) > 1 THEN SubSeq(done, 1, Len(done) - 1) ELSE done)
                 ELSE Append(done, c),
                 Tail(path))
Inside(path, dir) == Len(path) >= Len(dir) /\ SubSeq(path, 1, Len(dir)) = dir

\* ZipFile::enclosed_name : the depth below the extraction directory after
\* each component; a root component or a ".." at depth 0 gives up (-1)
RECURSIVE EnclosedDepth(_, _)
EnclosedDepth(name, depth) ==
    IF name = <<>> THEN depth
    ELSE LET c == Head(name) IN
         IF c = "/" THEN -1
         ELSE IF c = ".." THEN (IF depth = 0 THEN -1 ELSE EnclosedDepth(Tail(name), depth - 1))
         ELSE IF c = "." THEN EnclosedDepth(Tail(name), depth)
         ELSE EnclosedDepth(Tail(name), depth + 1)

\* an enclosed_name that lets every entry name through
EnclosedNameUnchecked(name) == Some(name)

EnclosedName(name) == IF EnclosedDepth(name, 0) < 0 THEN None ELSE Some(name)

\* the entries of an archive, by name: manifest.toml, the library of this
\* platform, and whatever else was packed
ArchiveEntries(a) ==
    (IF a.pkg.man # "missing" THEN << <<"manifest.toml">> >> ELSE <<>>)
    \o (IF a.pkg.lib = "present" THEN << <<"plugin.so">> >> ELSE <<>>)
    \o a.extra

\* the extraction loop of install_from_zip: what it creates or writes, the
\* entry itself and (create_dir_all) the directories leading to it
RECURSIVE Extract(_, _)
Extract(entries, plugin_dir) ==
    IF entries = <<>> THEN {}
    ELSE LET enclosed == EnclosedName(Head(entries))
             rest == Extract(Tail(entries), plugin_dir)
         IN  IF ~enclosed.some THEN rest
             ELSE {Resolve(<<>>, Join(plugin_dir, SubSeq(enclosed.val, 1, k))) :
                      k \in 1..Len(enclosed.val)} \cup rest

\* install_from_zip giving up before it touched the plugins root
InstallFailure(e, ds, zs) ==
    [res |-> Err(e), dir |-> "none", dirs |-> ds, zips |-> zs, written |-> {}]

\* an install_from_zip that clears the target directory as soon as the
\* manifest is parsed, before validate and is_compatible
LoaderInstallClearingFirst(ds, zs, z) ==
    LET a == zs[z] IN
    IF a.arch = "nozip" THEN InstallFailure("ZipOpenError", ds, zs)
    ELSE IF a.arch = "corrupt" THEN InstallFailure("ZipExtractionError", ds, zs)
    ELSE IF a.pkg.man = "missing" THEN InstallFailure("NoManifest", ds, zs)
    ELSE IF a.pkg.man = "unparsable" THEN InstallFailure("ManifestParseError", ds, zs)
    ELSE IF a.pkg.man = "invalid"
    THEN InstallFailure("ManifestValidationError", [ds EXCEPT ![a.pkg.id] = NoDir], zs)
    ELSE IF a.pkg.man = "incompatible"
    THEN InstallFailure("Incompatible", [ds EXCEPT ![a.pkg.id] = NoDir], zs)
    ELSE [res |-> Ok, dir |-> a.pkg.id,
          dirs |-> [ds EXCEPT ![a.pkg.id] = a.pkg],
          zips |-> [zs EXCEPT ![z] = NoZip],
          written |-> {PluginDir(a.pkg.id)} \cup Extract(ArchiveEntries(a), PluginDir(a.pkg.id))]

\* an install_from_zip that leaves the source archive where it was
LoaderInstallKeepingArchive(ds, zs, z) ==
    LET a == zs[z] IN
    IF a.arch = "nozip" THEN InstallFailure("ZipOpenError", ds, zs)
    ELSE IF a.arch = "corrupt" THEN InstallFailure("ZipExtractionError", ds, zs)
    ELSE IF a.pkg.man = "missing" THEN InstallFailure("NoManifest", ds, zs)
    ELSE IF a.pkg.man = "unparsable" THEN InstallFailure("ManifestParseError", ds, zs)
    ELSE IF a.pkg.man = "invalid" THEN InstallFailure("ManifestValidationError", ds, zs)
    ELSE IF a.pkg.man = "incompatible" THEN InstallFailure("Incompatible", ds, zs)
    ELSE [res |-> Ok, dir |-> a.pkg.id,
          dirs |-> [ds EXCEPT ![a.pkg.id] = a.pkg],
          zips |-> zs,
          written |-> {PluginDir(a.pkg.id)} \cup Extract(ArchiveEntries(a), PluginDir(a.pkg.id))]

\* PluginLoader::install_from_zip : the file system afterwards and the result
LoaderInstallFromZip(ds, zs, z) ==
    LET a == zs[z] IN
    IF a.arch = "nozip" THEN InstallFailure("ZipOpenError", ds, zs)
    ELSE IF a.arch = "corrupt" THEN InstallFailure("ZipExtractionError", ds, zs)
    ELSE IF a.pkg.man = "missing" THEN InstallFailure("NoManifest", ds, zs)
    ELSE IF a.pkg.man = "unparsable" THEN InstallFailure("ManifestParseError", ds, zs)
    ELSE IF a.pkg.man = "invalid" THEN InstallFailure("ManifestValidationError", ds, zs)
    ELSE IF a.pkg.man = "incompatible" THEN InstallFailure("Incompatible", ds, zs)
    ELSE [res |-> Ok, dir |-> a.pkg.id,
          dirs |-> [ds EXCEPT ![a.pkg.id] = a.pkg],
          zips |-> [zs EXCEPT ![z] = NoZip],
          written |-> {PluginDir(a.pkg.id)} \cup Extract(ArchiveEntries(a), PluginDir(a.pkg.id))]

\* ------------------------------------------------------------------------
\* Manager operations as functions of the manager state
\*   m = [dirs, zips, plugins, discovered, ret, errors, released]
\* ------------------------------------------------------------------------
\* discover_from_directory with the duplicate check against the loaded set left out
DiscoverIgnoringLoaded(m, d) ==
    LET r == ResolveLibrary(m.dirs, d)
        id == m.dirs[d].id
    IN  IF r.tag = "Err" THEN [m EXCEPT !.ret = r]
        ELSE IF HasId(m.discovered, id)
             THEN [m EXCEPT !.ret = Err("DuplicatePluginId")]
             ELSE [m EXCEPT !.discovered = Append(@, [manifest |-> Manifest(m.dirs[d]), directory |-> d]),
                            !.ret = Ok]

\* discover_from_directory without the library resolution
DiscoverWithoutLibrary(m, d) ==
    LET p == m.dirs[d]
        id == p.id
    IN  IF p.man # "ok" THEN [m EXCEPT !.ret = ResolveLibrary(m.dirs, d)]
        ELSE IF HasId(m.plugins, id) \/ HasId(m.discovered, id)
             THEN [m EXCEPT !.ret = Err("DuplicatePluginId")]
             ELSE [m EXCEPT !.discovered = Append(@, [manifest |-> Manifest(m.dirs[d]), directory |-> d]),
                            !.ret = Ok]

\* PluginManager::discover_from_directory
DiscoverFromDirectory(m, d) ==
    LET r == ResolveLibrary(m.dirs, d)
        id == m.dirs[d].id
    IN  IF r.tag = "Err" THEN [m EXCEPT !.ret = r]
        ELSE IF HasId(m.plugins, id) \/ HasId(m.discovered, id)
             THEN [m EXCEPT !.ret = Err("DuplicatePluginId")]
             ELSE [m EXCEPT !.discovered = Append(@, [manifest |-> Manifest(m.dirs[d]), directory |-> d]),
                            !.ret = Ok]

\* load_from_directory with the on_load call left out
LoadFromDirectoryNoOnLoad(m, d) ==
    LET l == LoaderLoadFromDirectory(m.dirs, d) IN
    IF l.res.tag = "Err" THEN [m EXCEPT !.ret = l.res]
    ELSE IF HasId(m.plugins, l.loaded.manifest.id)
         THEN [m EXCEPT !.ret = Err("DuplicatePluginId"),
                        !.released = Append(@, l.loaded.handle),
                        !.teardown = @ \o Dispose(l.loaded.manifest.id)]
         ELSE [m EXCEPT !.discovered = RetainNotId(@, l.loaded.manifest.id),
                        !.plugins = Append(@, l.loaded),
                        !.ret = Ok]

\* PluginManager::load_from_directory
LoadFromDirectory(m, d) ==
    LET l == LoaderLoadFromDirectory(m.dirs, d) IN
    IF l.res.tag = "Err" THEN [m EXCEPT !.ret = l.res]
    ELSE IF HasId(m.plugins, l.loaded.manifest.id)
         THEN [m EXCEPT !.ret = Err("DuplicatePluginId"),
                        !.released = Append(@, l.loaded.handle),
                        !.teardown = @ \o Dispose(l.loaded.manifest.id)]
         ELSE [m EXCEPT !.discovered = RetainNotId(@, l.loaded.manifest.id),
                        !.plugins = Append(@, [l.loaded EXCEPT !.handle = OnLoad(@)]),
                        !.ret = Ok]

\* PluginManager::install_from_zip
InstallFromZip(m, z) ==
    LET i == LoaderInstallFromZip(m.dirs, m.zips, z)
        mi == [m EXCEPT !.dirs = i.dirs, !.zips = i.zips, !.written = @ \cup i.written]
    IN  IF i.res.tag = "Err" THEN [mi EXCEPT !.ret = i.res]
        ELSE LoadFromDirectory(mi, i.dir)

PathError(path, r) == [path |-> path, err |-> r.err]

\* the load_pending loop giving up at the first plugin that fails to load
RECURSIVE LoadPendingLoopAbort(_, _)
LoadPendingLoopAbort(m, pending) ==
    IF pending = <<>> THEN m
    ELSE LET p == Head(pending) IN
         IF HasId(m.plugins, p.manifest.id)
         THEN LoadPendingLoopAbort(m, Tail(pending))
         ELSE LET n == LoadFromDirectory(m, p.directory) IN
              IF n.ret.tag = "Err"
              THEN [n EXCEPT !.errors = Append(@, PathError(p.directory, n.ret))]
              ELSE LoadPendingLoopAbort(n, Tail(pending))

\* PluginManager::load_pending : the loop over the taken pending list
RECURSIVE LoadPendingLoop(_, _)
LoadPendingLoop(m, pending) ==
    IF pending = <<>> THEN m
    ELSE LET p == Head(pending) IN
         IF HasId(m.plugins, p.manifest.id)
         THEN LoadPendingLoop(m, Tail(pending))
         ELSE LET n == LoadFromDirectory(m, p.directory) IN
              LoadPendingLoop(
                  IF n.ret.tag = "Err"
                  THEN [n EXCEPT !.errors = Append(@, PathError(p.directory, n.ret))]
                  ELSE n,
                  Tail(pending))

\* load_pending iterating over the pending list without taking it
LoadPendingWithoutTake(m) ==
    LoadPendingLoop(m, m.discovered)

\* PluginManager::load_pending : std::mem::take leaves the discovered set empty
LoadPending(m) ==
    LoadPendingLoop([m EXCEPT !.discovered = <<>>], m.discovered)

MgrState ==
    [dirs |-> dirs, zips |-> zips, plugins |-> plugins, discovered |-> discovered,
     ret |-> Ok, errors |-> <<>>, released |-> <<>>, teardown |-> <<>>, written |-> {}]

\* PluginManager::load_all : one directory entry of the scan
LoadAllEntry(m, e, lazy) ==
    IF e \in DirNames /\ m.dirs[e] # NoDir
    THEN LET n == IF lazy THEN DiscoverFromDirectory(m, e) ELSE LoadFromDirectory(m, e) IN
         IF n.ret.tag = "Err" THEN [n EXCEPT !.errors = Append(@, PathError(e, n.ret))] ELSE n
    ELSE IF e \in ZipNames /\ m.zips[e] # NoZip
    THEN LET i == LoaderInstallFromZip(m.dirs, m.zips, e)
             mi == [m EXCEPT !.dirs = i.dirs, !.zips = i.zips, !.written = @ \cup i.written]
         IN  IF i.res.tag = "Err" THEN [mi EXCEPT !.errors = Append(@, PathError(e, i.res))]
             ELSE LET n == IF lazy THEN DiscoverFromDirectory(mi, i.dir) ELSE LoadFromDirectory(mi, i.dir)
                  IN  IF n.ret.tag = "Err" THEN [n EXCEPT !.errors = Append(@, PathError(i.dir, n.ret))]
                      ELSE n
    ELSE m

\* the scan of load_all giving up at the first entry that fails
RECURSIVE LoadAllLoopAbort(_, _, _)
LoadAllLoopAbort(m, entries, lazy) ==
    IF entries = <<>> THEN m
    ELSE LET n == LoadAllEntry(m, Head(entries), lazy) IN
         IF Len(n.errors) > Len(m.errors) THEN n
         ELSE LoadAllLoopAbort(n, Tail(entries), lazy)

RECURSIVE LoadAllLoop(_, _, _)
LoadAllLoop(m, entries, lazy) ==
    IF entries = <<>> THEN m
    ELSE LoadAllLoop(LoadAllEntry(m, Head(entries), lazy), Tail(entries), lazy)

\* a load_all that loads every candidate at once, whatever the mode
LoadAllAlwaysLoading(m, entries, readable, lazy) ==
    LET m0 == [m EXCEPT !.discovered = <<>>] IN
    IF ~readable THEN [m0 EXCEPT !.errors = <<[path |-> "root", err |-> "ReadDirError"]>>]
    ELSE LoadPending(LoadAllLoop(m0, entries, FALSE))

\* PluginManager::load_all. entries is the order in which read_dir yields the
\* names of the plugins root (a name that does not exist when its turn comes
\* is not an entry); readable is whether the root can be created and read.
LoadAll(m, entries, readable, lazy) ==
    LET m0 == [m EXCEPT !.discovered = <<>>] IN
    IF ~readable THEN [m0 EXCEPT !.errors = <<[path |-> "root", err |-> "ReadDirError"]>>]
    ELSE LET m1 == LoadAllLoop(m0, entries, lazy) IN
         IF ~lazy THEN LoadPending(m1) ELSE m1

\* PluginManager::unload
RECURSIVE Position(_, _, _)
Position(seq, id, i) ==
    IF i > Len(seq) THEN 0
    ELSE IF seq[i].manifest.id = id THEN i ELSE Position(seq, id, i + 1)

RemoveAt(seq, pos) == SubSeq(seq, 1, pos - 1) \o SubSeq(seq, pos + 1, Len(seq))

UnloadEvent(id) == [id |-> id, ev |-> "on_unload"]

\* unload that only looks at the loaded set
UnloadLoadedOnly(m, id) ==
    LET pos == Position(m.plugins, id, 1) IN
    IF pos # 0
    THEN [m EXCEPT !.plugins = RemoveAt(@, pos),
                   !.released = Append(@, OnUnload(m.plugins[pos].handle)),
                   !.teardown = @ \o <<UnloadEvent(id)>> \o Dispose(id),
                   !.ret = [tag |-> "true", err |-> "none"]]
    ELSE [m EXCEPT !.ret = [tag |-> "false", err |-> "none"]]

\* unload that takes the first loaded plugin when the id is not found
UnloadFirstOnMiss(m, id) ==
    LET m0 == [m EXCEPT !.discovered = RetainNotId(@, id)]
        found == Position(m0.plugins, id, 1)
        pos == IF found = 0 /\ m0.plugins # <<>> THEN 1 ELSE found
    IN  IF pos # 0
        THEN [m0 EXCEPT !.plugins = RemoveAt(@, pos),
                        !.released = Append(@, OnUnload(m0.plugins[pos].handle)),
                        !.teardown = @ \o <<UnloadEvent(m0.plugins[pos].manifest.id)>>
                                       \o Dispose(m0.plugins[pos].manifest.id),
                        !.ret = [tag |-> "true", err |-> "none"]]
        ELSE [m0 EXCEPT !.ret = [tag |-> "false", err |-> "none"]]

\* unload that calls on_unload and leaves the plugin in the loaded set
UnloadLeavingLoaded(m, id) ==
    LET m0 == [m EXCEPT !.discovered = RetainNotId(@, id)]
        pos == Position(m0.plugins, id, 1)
    IN  IF pos # 0
        THEN [m0 EXCEPT !.plugins[pos].handle = OnUnload(@),
                        !.teardown = @ \o <<UnloadEvent(id)>>,
                        !.ret = [tag |-> "true", err |-> "none"]]
        ELSE [m0 EXCEPT !.ret = [tag |-> "false", err |-> "none"]]

\* unload taking the plugin out with Vec::swap_remove: the last plugin moves
\* into the place of the removed one
UnloadSwapRemove(m, id) ==
    LET m0 == [m EXCEPT !.discovered = RetainNotId(@, id)]
        pos == Position(m0.plugins, id, 1)
    IN  IF pos # 0
        THEN [m0 EXCEPT !.plugins = RemoveAt([@ EXCEPT ![pos] = m0.plugins[Len(m0.plugins)]],
                                             Len(m0.plugins)),
                        !.released = Append(@, OnUnload(m0.plugins[pos].handle)),
                        !.teardown = @ \o <<UnloadEvent(id)>> \o Dispose(id),
                        !.ret = [tag |-> "true", err |-> "none"]]
        ELSE [m0 EXCEPT !.ret = [tag |-> "false", err |-> "none"]]

\* PluginManager::unload : the removed LoadedPlugin is dropped when the call
\* returns, after its on_unload
Unload(m, id) ==
    LET m0 == [m EXCEPT !.discovered = RetainNotId(@, id)]
        pos == Position(m0.plugins, id, 1)
    IN  IF pos # 0
        THEN [m0 EXCEPT !.plugins = RemoveAt(@, pos),
                        !.released = Append(@, OnUnload(m0.plugins[pos].handle)),
                        !.teardown = @ \o <<UnloadEvent(id)>> \o Dispose(id),
                        !.ret = [tag |-> "true", err |-> "none"]]
        ELSE [m0 EXCEPT !.ret = [tag |-> "false", err |-> "none"]]

\* impl Drop for PluginManager: drop() calls on_unload on every loaded plugin;
\* after it returns the fields are dropped, plugins first, element by element.
RECURSIVE DisposeAll(_)
DisposeAll(ps) ==
    IF ps = <<>> THEN <<>> ELSE Dispose(Head(ps).manifest.id) \o DisposeAll(Tail(ps))

\* a teardown that drains the loaded set, releasing each plugin right after its on_unload
RECURSIVE DrainAll(_)
DrainAll(ps) ==
    IF ps = <<>> THEN <<>>
    ELSE <<UnloadEvent(Head(ps).manifest.id)>> \o Dispose(Head(ps).manifest.id) \o DrainAll(Tail(ps))

DropDraining(m) ==
    [m EXCEPT !.plugins = <<>>,
              !.discovered = <<>>,
              !.released = [i \in DOMAIN m.plugins |-> OnUnload(m.plugins[i].handle)],
              !.teardown = DrainAll(m.plugins)]

Drop(m) ==
    [m EXCEPT !.plugins = <<>>,
              !.discovered = <<>>,
              !.released = [i \in DOMAIN m.plugins |-> OnUnload(m.plugins[i].handle)],
              !.teardown = [i \in DOMAIN m.plugins |-> UnloadEvent(m.plugins[i].manifest.id)]
                           \o DisposeAll(m.plugins)]

\* the dispatch loop with a Cancel remembered but the remaining plugins still called
RECURSIVE DispatchLoopNoHalt(_, _, _, _, _, _)
DispatchLoopNoHalt(ps, i, event, answers, current_image, log) ==
    IF i > Len(ps)
    THEN [plugins |-> ps, calls |-> log,
          ret |-> IF \E k \in DOMAIN log : log[k].response.tag = "Cancel" THEN Cancel
                  ELSE IF current_image # "none" THEN ModifiedImage(current_image) ELSE Continue]
    ELSE LET response == ResponseOf(ps[i].manifest.id, answers[i]) IN
         DispatchLoopNoHalt([ps EXCEPT ![i].handle = OnEvent(@)], i + 1, event, answers,
             IF response.tag = "ModifiedImage" THEN response.image ELSE current_image,
             Append(log, [id |-> ps[i].manifest.id, event |-> event, response |-> response]))

\* the dispatch loop with the first ModifiedImage kept instead of the last
RECURSIVE DispatchLoopFirstWins(_, _, _, _, _, _)
DispatchLoopFirstWins(ps, i, event, answers, current_image, log) ==
    IF i > Len(ps)
    THEN [plugins |-> ps, calls |-> log,
          ret |-> IF current_image # "none" THEN ModifiedImage(current_image) ELSE Continue]
    ELSE LET response == ResponseOf(ps[i].manifest.id, answers[i])
             ps1 == [ps EXCEPT ![i].handle = OnEvent(@)]
             log1 == Append(log, [id |-> ps[i].manifest.id, event |-> event, response |-> response])
         IN  IF response.tag = "Cancel"
             THEN [plugins |-> ps1, calls |-> log1, ret |-> Cancel]
             ELSE DispatchLoopFirstWins(ps1, i + 1, event, answers,
                      IF response.tag = "ModifiedImage" /\ current_image = "none"
                      THEN response.image ELSE current_image,
                      log1)

\* the dispatch loop with a ModifiedImage threaded into the event of the next plugin
RECURSIVE DispatchLoopThreaded(_, _, _, _, _, _)
DispatchLoopThreaded(ps, i, event, answers, current_image, log) ==
    IF i > Len(ps)
    THEN [plugins |-> ps, calls |-> log,
          ret |-> IF current_image # "none" THEN ModifiedImage(current_image) ELSE Continue]
    ELSE LET response == ResponseOf(ps[i].manifest.id, answers[i])
             ps1 == [ps EXCEPT ![i].handle = OnEvent(@)]
             log1 == Append(log, [id |-> ps[i].manifest.id, event |-> event, response |-> response])
         IN  IF response.tag = "Cancel"
             THEN [plugins |-> ps1, calls |-> log1, ret |-> Cancel]
             ELSE DispatchLoopThreaded(ps1, i + 1,
                      IF response.tag = "ModifiedImage" /\ event.image # "none"
                      THEN [event EXCEPT !.image = response.image] ELSE event,
                      answers,
                      IF response.tag = "ModifiedImage" THEN response.image ELSE current_image,
                      log1)

\* PluginManager::dispatch : the loop over the loaded plugins. answers[i] is
\* what the i-th plugin's on_event answers when it is called.
RECURSIVE DispatchLoop(_, _, _, _, _, _)
DispatchLoop(ps, i, event, answers, current_image, log) ==
    IF i > Len(ps)
    THEN [plugins |-> ps, calls |-> log,
          ret |-> IF current_image # "none" THEN ModifiedImage(current_image) ELSE Continue]
    ELSE LET response == ResponseOf(ps[i].manifest.id, answers[i])
             ps1 == [ps EXCEPT ![i].handle = OnEvent(@)]
             log1 == Append(log, [id |-> ps[i].manifest.id, event |-> event, response |-> response])
         IN  IF response.tag = "Cancel"
             THEN [plugins |-> ps1, calls |-> log1, ret |-> Cancel]
             ELSE DispatchLoop(ps1, i + 1, event, answers,
                               IF response.tag = "ModifiedImage" THEN response.image ELSE current_image,
                               log1)

\* dispatch that promotes the pending plugins before it looks at the enabled flag
DispatchPromotingFirst(m, en, lazy, event, answers) ==
    LET m1 == IF lazy THEN LoadPending(m) ELSE m IN
    IF ~en THEN [m |-> [m1 EXCEPT !.ret = Continue], calls |-> <<>>]
    ELSE LET d == DispatchLoop(m1.plugins, 1, event, answers, "none", <<>>)
         IN  [m |-> [m1 EXCEPT !.plugins = d.plugins, !.ret = d.ret], calls |-> d.calls]

\* PluginManager::dispatch
Dispatch(m, en, lazy, event, answers) ==
    IF ~en THEN [m |-> [m EXCEPT !.ret = Continue], calls |-> <<>>]
    ELSE LET m1 == IF lazy THEN LoadPending(m) ELSE m
             d == DispatchLoop(m1.plugins, 1, event, answers, "none", <<>>)
         IN  [m |-> [m1 EXCEPT !.plugins = d.plugins, !.ret = d.ret], calls |-> d.calls]

\* PluginManager::list, count, get
List(ps, ds) ==
    [i \in 1..(Len(ps) + Len(ds)) |->
        IF i <= Len(ps) THEN ps[i].manifest ELSE ds[i - Len(ps)].manifest]
Count(ps, ds) == Len(ps) + Len(ds)
Get(ps, ds, id) ==
    IF HasId(ps, id) THEN ps[Position(ps, id, 1)].manifest
    ELSE IF HasId(ds, id) THEN ds[Position(ds, id, 1)].manifest
    ELSE [id |-> "none", ver |-> 0]

\* ------------------------------------------------------------------------
\* Sandbox: the WASM backend (wasm_runtime.rs)
\* ------------------------------------------------------------------------
MAX_WASM_MODULE_BYTES == 8 * 1024 * 1024
MAX_PLUGIN_IMAGE_BYTES == 64 * 1024 * 1024
WASM_EVENT_FUEL == 15000000
WASM_LIFECYCLE_FUEL == 2000000

\* Vec<u8> of len bytes, indexed from 0: every byte is `base` except those in `over`
Vec(len, base, over) == [len |-> len, base |-> base, over |-> over]
ByteAt(v, i) == IF i \in DOMAIN v.over THEN v.over[i] ELSE v.base
Write4(v, idx, b0, b1, b2, b3) ==
    [v EXCEPT !.over = [i \in DOMAIN v.over \cup {idx, idx + 1, idx + 2, idx + 3} |->
                            IF i = idx THEN b0
                            ELSE IF i = idx + 1 THEN b1
                            ELSE IF i = idx + 2 THEN b2
                            ELSE IF i = idx + 3 THEN b3
                            ELSE v.over[i]]]

\* image::RgbaImage: the container holds at least width*height*4 bytes
RgbaImage(width, height, raw) == [width |-> width, height |-> height, raw |-> raw]
\* RgbaImage::from_raw
FromRaw(width, height, buf) ==
    IF buf.len >= width * height * 4 THEN Some(RgbaImage(width, height, buf)) ELSE None

\* the images the host hands to plugins: 1x1, 2x1, empty, a 1x1 view of a
\* longer container, and one above the byte cap
Img1x1 == RgbaImage(1, 1, Vec(4, 0, [i \in 0..3 |-> 10 * (i + 1)]))
Img2x1 == RgbaImage(2, 1, Vec(8, 7, <<>>))
ImgEmpty == RgbaImage(0, 0, Vec(0, 0, <<>>))
ImgLong == RgbaImage(1, 1, Vec(8, 9, <<>>))
ImgHuge == RgbaImage(4097, 4096, Vec(4097 * 4096 * 4, 0, <<>>))
Img2x2 == RgbaImage(2, 2, Vec(16, 7, [i \in 8..11 |-> 50 + i]))
Images == {Img1x1, Img2x1, ImgEmpty, ImgLong, ImgHuge}

\* WasmState (without the store limits)
WasmState(data, width, height, modified) ==
    [image_data |-> data, image_width |-> width, image_height |-> height, modified |-> modified]
NoImageState == WasmState(None, 0, 0, FALSE)

\* A u32 that comes from the module is written as the i32 with the same bits
\* (2^32 - 1 is -1): its upper and lower 16 bits
Hi16(v) == (v \div 65536) % 65536
Lo16(v) == v % 65536
\* a number hi * 2^16 + lo with lo < 2^16, wide enough for what follows
Wide(hi, lo) == [hi |-> hi + lo \div 65536, lo |-> lo % 65536]
\* (y * image_width + x) * 4 as a number, for the widths below 2^13 that the
\* images of the model have
ExactIndex(width, x, y) ==
    LET yw == Wide(Hi16(y) * width, Lo16(y) * width)
        sum == Wide(yw.hi + Hi16(x), yw.lo + Lo16(x))
    IN  Wide(sum.hi * 4, sum.lo * 4)
\* the u32 arithmetic cannot hold it
Overflows(e) == e.hi >= 65536

\* the index both pixel accessors compute, where the arithmetic wraps: the
\* low 32 bits. An index of 2^31 or more lies beyond every buffer
\* (MAX_PLUGIN_IMAGE_BYTES) and is written as 2^31 - 4.
PixelIndex(st, x, y) ==
    LET e == ExactIndex(st.image_width, x, y)
        h == e.hi % 65536
    IN  IF h >= 32768 THEN 2147483644 ELSE h * 65536 + e.lo

\* the index arithmetic of a pixel accessor panics: a build with overflow
\* checks, an image stored, and an index that does not fit
IndexPanics(st, x, y) ==
    overflow_checks /\ st.image_data.some /\ Overflows(ExactIndex(st.image_width, x, y))

\* (a << 24) | (r << 16) | (g << 8) | b : a 32-bit value, written as the i32
\* the module sees (bit 31 set reads as a negative number)
Pack(a, r, g, b) ==
    (IF a >= 128 THEN a - 256 ELSE a) * 16777216 + r * 65536 + g * 256 + b

\* host function get_pixel
GetPixel(st, x, y) ==
    IF st.image_data.some
    THEN LET data == st.image_data.val
             idx == PixelIndex(st, x, y)
         IN  IF idx + 3 < data.len
             THEN Pack(ByteAt(data, idx + 3), ByteAt(data, idx),
                       ByteAt(data, idx + 1), ByteAt(data, idx + 2))
             ELSE 0
    ELSE 0

\* a set_pixel that stores the four bytes of rgba from the top byte down
SetPixelTopByteFirst(st, x, y, rgba) ==
    IF st.image_data.some /\ PixelIndex(st, x, y) + 3 < st.image_data.val.len
    THEN [st EXCEPT !.image_data = Some(Write4(st.image_data.val, PixelIndex(st, x, y),
                                               (rgba \div 16777216) % 256, (rgba \div 65536) % 256,
                                               (rgba \div 256) % 256, rgba % 256)),
                    !.modified = TRUE]
    ELSE st

\* a set_pixel that raises the modified flag whatever it wrote
SetPixelAlwaysModified(st, x, y, rgba) ==
    IF st.image_data.some /\ PixelIndex(st, x, y) + 3 < st.image_data.val.len
    THEN [st EXCEPT !.image_data = Some(Write4(st.image_data.val, PixelIndex(st, x, y),
                                               (rgba \div 65536) % 256, (rgba \div 256) % 256,
                                               rgba % 256, (rgba \div 16777216) % 256)),
                    !.modified = TRUE]
    ELSE [st EXCEPT !.modified = TRUE]

\* host function set_pixel
SetPixel(st, x, y, rgba) ==
    IF st.image_data.some
    THEN LET data == st.image_data.val
             idx == PixelIndex(st, x, y)
         IN  IF idx + 3 < data.len
             THEN [st EXCEPT !.image_data = Some(Write4(data, idx,
                                                        (rgba \div 65536) % 256,
                                                        (rgba \div 256) % 256,
                                                        rgba % 256,
                                                        (rgba \div 16777216) % 256)),
                             !.modified = TRUE]
             ELSE st
    ELSE st

\* a set_image that returns on a bad image without clearing what is stored
SetImageKeepingPrevious(st, image) ==
    IF image.width * image.height * 4 # image.raw.len \/ image.raw.len > MAX_PLUGIN_IMAGE_BYTES
    THEN st
    ELSE WasmState(Some(image.raw), image.width, image.height, FALSE)

\* WasmPlugin::set_image
SetImage(st, image) ==
    LET raw == image.raw
        expected_len == image.width * image.height * 4
    IN  IF expected_len # raw.len \/ raw.len > MAX_PLUGIN_IMAGE_BYTES
        THEN WasmState(None, 0, 0, FALSE)
        ELSE WasmState(Some(raw), image.width, image.height, FALSE)

\* WasmPlugin::get_modified_image
GetModifiedImage(st) ==
    IF st.modified /\ st.image_data.some
    THEN FromRaw(st.image_width, st.image_height, st.image_data.val)
    ELSE None

\* Guest code. One call of an export executes a program: a sequence of
\* instructions, each metered by the engine.
Burn(n) == [op |-> "burn", n |-> n, x |-> 0, y |-> 0, v |-> 0]
Loop == [op |-> "loop", n |-> 0, x |-> 0, y |-> 0, v |-> 0]
Trap == [op |-> "trap", n |-> 1, x |-> 0, y |-> 0, v |-> 0]
Return(v) == [op |-> "return", n |-> 1, x |-> 0, y |-> 0, v |-> v]
CallGetPixel(x, y) == [op |-> "get_pixel", n |-> 1, x |-> x, y |-> y, v |-> 0]
CallSetPixel(x, y, rgba) == [op |-> "set_pixel", n |-> 1, x |-> x, y |-> y, v |-> rgba]

\* the run of a program so far
Started(fuel, st) ==
    [fuel |-> fuel, st |-> st, steps |-> 0, outcome |-> "running", value |-> 0, reads |-> <<>>]

\* The engine executing a program from instruction pc. With fuel metering
\* every instruction takes its cost from the store's fuel and the call traps
\* when the fuel does not cover it; without metering a loop never ends. A
\* panic in a host function unwinds through the module's frames.
RECURSIVE Exec(_, _, _, _)
Exec(prog, pc, acc, metered) ==
    IF pc > Len(prog) THEN [acc EXCEPT !.outcome = "returned"]
    ELSE LET ins == prog[pc] IN
         IF ins.op = "loop"
         THEN IF metered
              THEN [acc EXCEPT !.steps = @ + acc.fuel, !.fuel = 0, !.outcome = "out_of_fuel"]
              ELSE [acc EXCEPT !.steps = WASM_EVENT_FUEL + 1, !.outcome = "hung"]
         ELSE IF metered /\ acc.fuel < ins.n
         THEN [acc EXCEPT !.steps = @ + acc.fuel, !.fuel = 0, !.outcome = "out_of_fuel"]
         ELSE LET a1 == [acc EXCEPT !.steps = @ + ins.n,
                                    !.fuel = IF metered THEN @ - ins.n ELSE @]
              IN  IF ins.op = "trap" THEN [a1 EXCEPT !.outcome = "trap"]
                  ELSE IF ins.op = "return" THEN [a1 EXCEPT !.outcome = "returned", !.value = ins.v]
                  ELSE IF ins.op \in {"get_pixel", "set_pixel"} /\ IndexPanics(a1.st, ins.x, ins.y)
                  THEN [a1 EXCEPT !.outcome = "host_panic"]
                  ELSE IF ins.op = "get_pixel"
                  THEN Exec(prog, pc + 1,
                            [a1 EXCEPT !.reads = Append(@, GetPixel(a1.st, ins.x, ins.y))], metered)
                  ELSE IF ins.op = "set_pixel"
                  THEN Exec(prog, pc + 1,
                            [a1 EXCEPT !.st = SetPixel(@, ins.x, ins.y, ins.v)], metered)
                  ELSE Exec(prog, pc + 1, a1, metered)

\* an engine built without consume_fuel
RunUnmetered(prog, fuel, st) == Exec(prog, 1, Started(fuel, st), FALSE)

\* typed.call on an engine built with config.consume_fuel(true)
Run(prog, fuel, st) == Exec(prog, 1, Started(fuel, st), TRUE)

\* A module file: its size, whether it compiles, its start function (run by
\* instantiate) and how it exports on_event, on_load, on_unload
Module(bytes, valid, start, on_event, on_load, on_unload) ==
    [bytes |-> bytes, valid |-> valid, start |-> start,
     on_event |-> on_event, on_load |-> on_load, on_unload |-> on_unload]
Modules ==
    { Module(1024, TRUE, <<>>, "ok", "ok", "ok"),
      Module(1024, TRUE, <<>>, "missing", "missing", "missing"),
      Module(1024, TRUE, <<>>, "badsig", "badsig", "ok"),
      Module(1024, TRUE, <<Burn(500000)>>, "ok", "missing", "ok"),
      Module(1024, TRUE, <<Loop>>, "ok", "ok", "ok"),
      Module(1024, FALSE, <<>>, "ok", "ok", "ok"),
      Module(MAX_WASM_MODULE_BYTES + 1, TRUE, <<>>, "ok", "ok", "ok") }

\* what the host saw of one call into the sandbox
CallRecord(name) ==
    [name |-> name, kind |-> "none", event_type |-> 0, image |-> None, prog |-> <<>>,
     fuel_set |-> 0, fuel_before |-> 0, fuel_start |-> 0, steps |-> 0, outcome |-> "none",
     result |-> 0, response |-> "none", out_image |-> None, reads |-> <<>>]

NoCall == CallRecord("none")

\* WasmPlugin::load : Err, or the sandbox with the fuel its construction set
WasmLoad(module) ==
    IF module.bytes > MAX_WASM_MODULE_BYTES
    THEN [res |-> Err("WasmSizeExceeded"), sb |-> NoSandbox, fuel_set |-> 0]
    ELSE IF ~module.valid
    THEN [res |-> Err("WasmCompileError"), sb |-> NoSandbox, fuel_set |-> 0]
    ELSE LET fuel == WASM_EVENT_FUEL
             r == Run(module.start, fuel, NoImageState)
         IN  IF r.outcome # "returned"
             THEN [res |-> Err("WasmInstantiateError"), sb |-> NoSandbox, fuel_set |-> fuel]
             ELSE [res |-> Ok,
                   sb |-> [status |-> "built", module |-> module, fuel |-> r.fuel, state |-> r.st],
                   fuel_set |-> fuel]

\* call_event that goes on with the fuel the store has left
CallEventKeepingFuel(sb, event_type, prog) ==
    LET fuel == sb.fuel IN
    IF sb.module.on_event = "missing"
    THEN [sb |-> sb, fuel_start |-> fuel, result |-> 0, outcome |-> "no_export", run |-> Started(fuel, sb.state)]
    ELSE IF sb.module.on_event = "badsig"
    THEN [sb |-> sb, fuel_start |-> fuel, result |-> 0, outcome |-> "bad_signature", run |-> Started(fuel, sb.state)]
    ELSE LET r == Run(prog, fuel, sb.state) IN
         [sb |-> [sb EXCEPT !.fuel = r.fuel, !.state = r.st], fuel_start |-> fuel,
          result |-> IF r.outcome = "returned" THEN r.value ELSE 0,
          outcome |-> r.outcome, run |-> r]

\* call_event that answers Cancel (1) when the call into the module fails
CallEventFailClosed(sb, event_type, prog) ==
    LET fuel == WASM_EVENT_FUEL
        sb0 == [sb EXCEPT !.fuel = fuel]
    IN  IF sb.module.on_event = "missing"
        THEN [sb |-> sb0, fuel_start |-> fuel, result |-> 1, outcome |-> "no_export", run |-> Started(fuel, sb.state)]
        ELSE IF sb.module.on_event = "badsig"
        THEN [sb |-> sb0, fuel_start |-> fuel, result |-> 1, outcome |-> "bad_signature", run |-> Started(fuel, sb.state)]
        ELSE LET r == Run(prog, fuel, sb.state) IN
             [sb |-> [sb EXCEPT !.fuel = r.fuel, !.state = r.st], fuel_start |-> fuel,
              result |-> IF r.outcome = "returned" THEN r.value ELSE 1,
              outcome |-> r.outcome, run |-> r]

\* WasmPlugin::call_event : set_fuel, look the export up, check its type, call it
CallEvent(sb, event_type, prog) ==
    LET fuel == WASM_EVENT_FUEL
        sb0 == [sb EXCEPT !.fuel = fuel]
    IN  IF sb.module.on_event = "missing"
        THEN [sb |-> sb0, fuel_start |-> fuel, result |-> 0, outcome |-> "no_export", run |-> Started(fuel, sb.state)]
        ELSE IF sb.module.on_event = "badsig"
        THEN [sb |-> sb0, fuel_start |-> fuel, result |-> 0, outcome |-> "bad_signature", run |-> Started(fuel, sb.state)]
        ELSE LET r == Run(prog, fuel, sb.state) IN
             [sb |-> [sb EXCEPT !.fuel = r.fuel, !.state = r.st], fuel_start |-> fuel,
              result |-> IF r.outcome = "returned" THEN r.value ELSE 0,
              outcome |-> r.outcome, run |-> r]

\* event types counted from 0
EventTypeFromZero(kind) ==
    CASE kind = "PreCapture" -> 0
      [] kind = "PostCapture" -> 1
      [] kind = "PreSave" -> 2
      [] kind = "PostSave" -> 3
      [] kind = "PreUpload" -> 4
      [] kind = "PostUpload" -> 5

\* the event_type on_event passes to the module
EventType(kind) ==
    CASE kind = "PreCapture" -> 1
      [] kind = "PostCapture" -> 2
      [] kind = "PreSave" -> 3
      [] kind = "PostSave" -> 4
      [] kind = "PreUpload" -> 5
      [] kind = "PostUpload" -> 6

\* <WasmPlugin as Plugin>::on_event : event is [kind, image], image an Option
WasmOnEvent(sb, event, prog) ==
    LET st1 == IF event.kind \in ImageKinds THEN SetImage(sb.state, event.image.val) ELSE sb.state
        event_type == EventType(event.kind)
        c == CallEvent([sb EXCEPT !.state = st1], event_type, prog)
        out == IF c.result = 2 THEN GetModifiedImage(c.sb.state) ELSE None
        response == IF c.outcome = "host_panic" THEN "Panic"
                    ELSE IF c.result = 1 THEN "Cancel"
                    ELSE IF c.result = 2 /\ out.some THEN "ModifiedImage"
                    ELSE "Continue"
    IN  [sb |-> c.sb,
         call |-> [CallRecord("on_event") EXCEPT
                      !.kind = event.kind, !.event_type = event_type, !.image = event.image,
                      !.prog = prog, !.fuel_before = sb.fuel, !.fuel_start = c.fuel_start,
                      !.steps = c.run.steps, !.outcome = c.outcome, !.result = c.result,
                      !.response = response,
                      !.out_image = IF response = "ModifiedImage" THEN out ELSE None,
                      !.reads = c.run.reads]]

\* <WasmPlugin as Plugin>::on_load and on_unload : export is the field of the
\* module that says how it exports the callback
WasmLifecycle(sb, name, export, prog) ==
    LET fuel == WASM_LIFECYCLE_FUEL
        r == IF export = "ok" THEN Run(prog, fuel, sb.state) ELSE Started(fuel, sb.state)
    IN  [sb |-> [sb EXCEPT !.fuel = r.fuel, !.state = r.st],
         call |-> [CallRecord(name) EXCEPT
                      !.prog = prog, !.fuel_before = sb.fuel, !.fuel_start = fuel,
                      !.steps = r.steps,
                      !.outcome = IF export = "missing" THEN "no_export"
                                  ELSE IF export = "badsig" THEN "bad_signature"
                                  ELSE r.outcome,
                      !.reads = r.reads]]

\* ------------------------------------------------------------------------
\* Initial state: PluginManager::new over some plugins root
\* ------------------------------------------------------------------------
InitDirs ==
    { f \in [DirNames -> {GoodPkg("a", 1), GoodPkg("b", 1), GoodPkg("c", 1),
                          GoodPkg("a", 2), Pkg("c", 1, "ok", "present", FALSE),
                          Pkg("c", 1, "invalid", "present", TRUE)}] :
        /\ f["a"] = GoodPkg("a", 1)
        /\ f["b"] = GoodPkg("b", 1)
        /\ f["c"] \in {GoodPkg("c", 1), GoodPkg("a", 2), Pkg("c", 1, "ok", "present", FALSE),
                       Pkg("c", 1, "invalid", "present", TRUE)} }

InitZips ==
    [ZipNames -> {[arch |-> "ok", pkg |-> GoodPkg("b", 3), extra |-> <<>>]}]

Init ==
    /\ dirs \in InitDirs
    /\ zips \in InitZips
    /\ plugins = <<>>
    /\ discovered = <<>>
    /\ enabled = TRUE
    /\ lazy_loading = TRUE
    /\ op = [name |-> "new", arg |-> "none"]
    /\ ret = Ok
    /\ errors = <<>>
    /\ calls = <<>>
    /\ released = <<>>
    /\ teardown = <<>>
    /\ sandbox = NoSandbox
    /\ wcall = NoCall
    /\ written = {}
    /\ overflow_checks = FALSE

\* ------------------------------------------------------------------------
\* Actions
\* ------------------------------------------------------------------------
\* the manager exists until it is dropped, or a panic unwinds through it
Alive == op.name \notin {"drop", "panic"}

Commit(m, name, arg) ==
    /\ Alive
    /\ dirs' = m.dirs
    /\ zips' = m.zips
    /\ plugins' = m.plugins
    /\ discovered' = m.discovered
    /\ ret' = m.ret
    /\ errors' = m.errors
    /\ released' = m.released
    /\ teardown' = m.teardown
    /\ written' = m.written
    /\ UNCHANGED overflow_checks
    /\ op' = [name |-> name, arg |-> arg]

SetLazyLoading(b) ==
    /\ lazy_loading' = b
    /\ op' = [name |-> "set_lazy_loading", arg |-> b]
    /\ ret' = Ok
    /\ errors' = <<>>
    /\ calls' = <<>>
    /\ released' = <<>>
    /\ teardown' = <<>>
    /\ Alive
    /\ written' = {}
    /\ UNCHANGED overflow_checks
    /\ UNCHANGED <<dirs, zips, plugins, discovered, enabled, sandbox, wcall>>

\* set_enabled that also forgets the pending plugins when it disables
SetEnabledDroppingPending(b) ==
    /\ enabled' = b
    /\ discovered' = IF b THEN discovered ELSE <<>>
    /\ op' = [name |-> "set_enabled", arg |-> b]
    /\ ret' = Ok
    /\ errors' = <<>>
    /\ calls' = <<>>
    /\ released' = <<>>
    /\ teardown' = <<>>
    /\ Alive
    /\ written' = {}
    /\ UNCHANGED overflow_checks
    /\ UNCHANGED <<dirs, zips, plugins, lazy_loading, sandbox, wcall>>

SetEnabled(b) ==
    /\ enabled' = b
    /\ op' = [name |-> "set_enabled", arg |-> b]
    /\ ret' = Ok
    /\ errors' = <<>>
    /\ calls' = <<>>
    /\ released' = <<>>
    /\ teardown' = <<>>
    /\ Alive
    /\ written' = {}
    /\ UNCHANGED overflow_checks
    /\ UNCHANGED <<dirs, zips, plugins, discovered, lazy_loading, sandbox, wcall>>

CallLoadFromDirectory(d) ==
    /\ Commit(LoadFromDirectory(MgrState, d), "load_from_directory", d)
    /\ calls' = <<>>
    /\ UNCHANGED <<enabled, lazy_loading, sandbox, wcall>>

CallInstallFromZip(z) ==
    /\ Commit(InstallFromZip(MgrState, z), "install_from_zip", z)
    /\ calls' = <<>>
    /\ UNCHANGED <<enabled, lazy_loading, sandbox, wcall>>

CallLoadPending ==
    /\ Commit([LoadPending(MgrState) EXCEPT !.ret = ErrorList], "load_pending", "none")
    /\ calls' = <<>>
    /\ UNCHANGED <<enabled, lazy_loading, sandbox, wcall>>

\* the orders in which read_dir can yield the entries of the plugins root
OrdersOf(S) ==
    {o \in [1..Cardinality(S) -> S] : \A i, j \in DOMAIN o : i # j => o[i] # o[j]}
Orders ==
    OrdersOf({d \in DirNames : dirs[d] # NoDir} \cup {z \in ZipNames : zips[z] # NoZip})

CallLoadAll(entries, readable) ==
    /\ Commit([LoadAll(MgrState, entries, readable, lazy_loading) EXCEPT !.ret = ErrorList],
              "load_all", "none")
    /\ calls' = <<>>
    /\ UNCHANGED <<enabled, lazy_loading, sandbox, wcall>>

CallUnload(id) ==
    /\ Commit(Unload(MgrState, id), "unload", id)
    /\ calls' = <<>>
    /\ UNCHANGED <<enabled, lazy_loading, sandbox, wcall>>

CallDrop ==
    /\ Commit(Drop(MgrState), "drop", "none")
    /\ calls' = <<>>
    /\ UNCHANGED <<enabled, lazy_loading, sandbox, wcall>>

EventsSeen(h) == CountOf(h.trace, "on_event")

\* what the plugins answer in one dispatch: one answer per plugin that is
\* loaded when the loop starts; a plugin behind a Cancel is never asked, so
\* its answer is fixed to Continue
AnswersOf(n) ==
    {r \in [1..n -> Answers] :
        \A i, j \in 1..n : (i < j /\ r[i] = "Cancel") => r[j] = "Continue"}

CallDispatch(event) ==
    /\ enabled => \A i \in DOMAIN plugins : EventsSeen(plugins[i].handle) < MaxEvents
    /\ LET n == IF enabled /\ lazy_loading THEN Len(LoadPending(MgrState).plugins)
                ELSE IF enabled THEN Len(plugins) ELSE 0
       IN  \E answers \in AnswersOf(n) :
              LET d == Dispatch(MgrState, enabled, lazy_loading, event, answers) IN
              /\ Commit(d.m, "dispatch", event)
              /\ calls' = d.calls
    /\ UNCHANGED <<enabled, lazy_loading, sandbox, wcall>>

Next ==
    \/ \E b \in BOOLEAN : SetLazyLoading(b)
    \/ \E b \in BOOLEAN : SetEnabled(b)
    \/ \E d \in DirNames : CallLoadFromDirectory(d)
    \/ \E z \in ZipNames : CallInstallFromZip(z)
    \/ CallLoadPending
    \/ \E entries \in Orders : CallLoadAll(entries, TRUE)
    \/ CallLoadAll(<<>>, FALSE)
    \/ \E id \in Ids : CallUnload(id)
    \/ \E event \in PluginEvent : CallDispatch(event)
    \/ CallDrop

Spec == Init /\ [][Next]_vars

\* ------------------------------------------------------------------------
\* A manager with one sandboxed plugin (id WasmId, loaded from directory
\* WasmId) and one native plugin next to it
\* ------------------------------------------------------------------------
WasmId == "a"
NativeId == "b"

\* what a module's on_load or on_unload does in one call
LifecycleProgs == { <<>>, <<Burn(3000000)>>, <<Loop>>, <<Trap>> }

ProgsOf(export, progs) == IF export = "ok" THEN progs ELSE {<<>>}
\* how the loaded module exports a callback
ExportOf(sb, name) == IF sb.status = "built" THEN sb.module[name] ELSE "missing"

\* an event as a sandboxed plugin receives it, with the image's content
EventOf(kind, img) == [kind |-> kind, image |-> IF kind \in ImageKinds THEN Some(img) ELSE None]

\* runs of on_event that return v, that read, that write and answer 2
Returning(v) == <<Burn(1000), Return(v)>>
Reading == <<CallGetPixel(0, 0), CallGetPixel(1, 0), Return(0)>>
Writing == <<CallSetPixel(0, 0, 16909060), CallGetPixel(0, 0), Return(2)>>
\* a run that writes v at (x, y) and reads it back
WriteRead(x, y, v) == <<CallSetPixel(x, y, v), CallGetPixel(x, y), Return(2)>>
\* a run that reads the pixel at (x, y), and one that writes it
Probe(x, y) == <<CallGetPixel(x, y), Return(0)>>
Poke(x, y) == <<CallSetPixel(x, y, 16909060), Return(2)>>
\* coordinates a module passes for a 2x2 image: inside, one past a row, one
\* past the last row, and 32-bit values around 2^30, 2^31 and 2^32 - 1
ProbeCoords ==
    { <<1, 1>>, <<2, 0>>, <<4, 0>>, <<0, 2>>,
      <<1073741824, 0>>, <<0, -2147483647 - 1>>, <<-1, -1>> }
\* runs of on_event that do not return: out of fuel, trap, busy loop
FailingProgs ==
    { <<Burn(20000000), Return(1)>>,
      <<Burn(1000), Trap>>,
      <<Loop>>,
      <<CallSetPixel(0, 0, 16909060), Trap>>,
      <<CallSetPixel(0, 0, 2130706433), Loop>> }

\* the on_event calls explored: an event and what the module does with it
WasmCalls ==
    {[event |-> EventOf(k, Img1x1), prog |-> Returning(v)] : k \in EventKinds, v \in {0, 1, 2}}
    \cup {[event |-> EventOf("PostCapture", Img1x1), prog |-> Returning(v)] :
             v \in {3, -1, 2147483647, -2147483647 - 1}}
    \cup {[event |-> EventOf("PostCapture", img), prog |-> p] : img \in Images, p \in {Reading, Writing}}
    \cup {[event |-> EventOf(k, Img1x1), prog |-> p] :
             k \in {"PreCapture", "PostCapture"},
             p \in FailingProgs \cup {Writing, <<CallSetPixel(5, 5, 16909060), Return(2)>>}}
    \cup {[event |-> EventOf("PostCapture", Img2x1), prog |-> WriteRead(x, 0, v)] :
             x \in {0, 1}, v \in {-1, -2147483647 - 1, 2130706433, -16909061}}
    \cup {[event |-> EventOf("PreSave", Img2x2), prog |-> p] :
             p \in {Probe(c[1], c[2]) : c \in ProbeCoords} \cup {Poke(c[1], c[2]) : c \in {<<2, 0>>, <<1073741824, 0>>, <<-1, -1>>}}}

\* a module without a callable on_event runs nothing
CallsOf(export) ==
    IF export = "ok" THEN WasmCalls ELSE {[event |-> c.event, prog |-> <<>>] : c \in WasmCalls}

WInit ==
    /\ dirs = [d \in DirNames |-> GoodPkg(d, 1)]
    /\ zips \in InitZips
    /\ plugins = <<>>
    /\ discovered = <<>>
    /\ enabled = TRUE
    /\ lazy_loading = TRUE
    /\ op = [name |-> "new", arg |-> "none"]
    /\ ret = Ok
    /\ errors = <<>>
    /\ calls = <<>>
    /\ released = <<>>
    /\ teardown = <<>>
    /\ sandbox = NoSandbox
    /\ wcall = NoCall
    /\ written = {}
    /\ overflow_checks \in BOOLEAN

\* load_from_directory of the sandboxed plugin: the loader builds the
\* WasmPlugin, the manager calls its on_load
WasmLoadFromDirectory(module, prog) ==
    /\ sandbox.status = "none"
    /\ ~HasId(plugins, WasmId)
    /\ LET l == WasmLoad(module) IN
       IF l.res.tag = "Err"
       THEN /\ Commit([MgrState EXCEPT !.ret = l.res], "load_from_directory", WasmId)
            /\ sandbox' = NoSandbox
            /\ wcall' = [CallRecord("load") EXCEPT !.fuel_set = l.fuel_set, !.outcome = l.res.err]
       ELSE LET c == WasmLifecycle(l.sb, "on_load", module.on_load, prog) IN
            /\ Commit(LoadFromDirectory(MgrState, WasmId), "load_from_directory", WasmId)
            /\ sandbox' = c.sb
            /\ wcall' = [c.call EXCEPT !.fuel_set = l.fuel_set]
    /\ calls' = <<>>
    /\ UNCHANGED <<enabled, lazy_loading>>

\* load_from_directory of the native plugin
LoadNative == CallLoadFromDirectory(NativeId)

\* dispatch: the sandboxed plugin answers what its on_event makes of the
\* module's run, the native plugin answers Continue. A panic in on_event
\* unwinds through the loop as it stands (no later plugin is called) and out
\* of dispatch, which returns nothing.
WasmDispatch(event, prog) ==
    /\ sandbox.status = "built"
    /\ \A i \in DOMAIN plugins : EventsSeen(plugins[i].handle) < MaxWasmEvents
    /\ \E w \in {WasmOnEvent(sandbox, event, prog)} :
       LET panic == w.call.response = "Panic"
           answers == [i \in 1..Len(plugins) |->
                          IF plugins[i].manifest.id # WasmId THEN "Continue"
                          ELSE IF panic THEN "Cancel"
                          ELSE w.call.response]
           mevent == [kind |-> event.kind, image |-> IF event.image.some THEN "img0" ELSE "none"]
       IN  \E d \in {Dispatch(MgrState, enabled, lazy_loading, mevent, answers)} :
              /\ IF panic
                 THEN Commit([d.m EXCEPT !.ret = Panicked], "panic", mevent)
                 ELSE Commit(d.m, "dispatch", mevent)
              /\ calls' = IF panic THEN <<>> ELSE d.calls
              /\ sandbox' = w.sb
              /\ wcall' = w.call
    /\ UNCHANGED <<enabled, lazy_loading>>

\* unload of the sandboxed plugin: on_unload, then the WasmPlugin is dropped
WasmUnload(prog) ==
    /\ sandbox.status = "built"
    /\ LET c == WasmLifecycle(sandbox, "on_unload", sandbox.module.on_unload, prog)
           m == Unload(MgrState, WasmId)
       IN  /\ Commit([m EXCEPT !.teardown = <<UnloadEvent(WasmId),
                                             [id |-> WasmId, ev |-> "drop_sandbox"]>>],
                     "unload", WasmId)
           /\ sandbox' = NoSandbox
           /\ wcall' = c.call
    /\ calls' = <<>>
    /\ UNCHANGED <<enabled, lazy_loading>>

WNext ==
    \/ \E module \in Modules : \E prog \in ProgsOf(module.on_load, LifecycleProgs) :
          WasmLoadFromDirectory(module, prog)
    \/ LoadNative
    \/ \E c \in CallsOf(ExportOf(sandbox, "on_event")) : WasmDispatch(c.event, c.prog)
    \/ \E prog \in ProgsOf(ExportOf(sandbox, "on_unload"), LifecycleProgs) : WasmUnload(prog)

SpecWasm == WInit /\ [][WNext]_vars

\* ------------------------------------------------------------------------
\* Manifest (manifest.rs): validate and is_compatible on their own
\* ------------------------------------------------------------------------
\* A String is a sequence of runs [c, n]: n >= 1 copies of the character c.
\* Chars(c, n) is the string of n times c.
\* "e'" stands for a letter outside ASCII that UTF-8 encodes in two bytes.
Chars(c, n) == <<[c |-> c, n |-> n]>>
Utf8Len(c) == IF c = "e'" THEN 2 ELSE 1
\* str.chars().count()
RECURSIVE CharCount(_)
CharCount(s) == IF s = <<>> THEN 0 ELSE Head(s).n + CharCount(Tail(s))
\* str.len() : the length in bytes
RECURSIVE ByteLen(_)
ByteLen(s) == IF s = <<>> THEN 0 ELSE Head(s).n * Utf8Len(Head(s).c) + ByteLen(Tail(s))
IsEmpty(s) == ByteLen(s) = 0
\* c.is_ascii_lowercase() || c == '-' || c.is_ascii_digit()
IsIdChar(c) == c \in {"a", "7", "-"}

\* semver::Version::parse on the version texts of the model
SemverParse(text) ==
    CASE text = "1.0.0" -> Some(<<1, 0, 0>>)
      [] text = "0.2.0" -> Some(<<0, 2, 0>>)
      [] text = "0.3.1" -> Some(<<0, 3, 1>>)
      [] OTHER -> None
\* semver::VersionReq::parse on the requirement texts of the model: the
\* versions v with ge <= v < lt
ReqParse(text) ==
    CASE text = ">=0.2.0" -> Some([ge |-> <<0, 2, 0>>, lt |-> <<999, 0, 0>>])
      [] text = "<0.3.0" -> Some([ge |-> <<0, 0, 0>>, lt |-> <<0, 3, 0>>])
      [] text = "^0.2" -> Some([ge |-> <<0, 2, 0>>, lt |-> <<0, 3, 0>>])
      [] text = ">=9.0.0" -> Some([ge |-> <<9, 0, 0>>, lt |-> <<999, 0, 0>>])
      [] OTHER -> None
VersionLess(a, b) ==
    \/ a[1] < b[1]
    \/ a[1] = b[1] /\ a[2] < b[2]
    \/ a[1] = b[1] /\ a[2] = b[2] /\ a[3] < b[3]
\* VersionReq::matches
ReqMatches(req, v) == ~VersionLess(v, req.ge) /\ VersionLess(v, req.lt)

\* PluginManifest: the fields validate and is_compatible read
PluginManifest(id, name, version, author, description, capscr, platforms) ==
    [id |-> id, name |-> name, version |-> version, author |-> author,
     description |-> description, capscr |-> capscr, platforms |-> platforms]

IdTexts ==
    { <<>>, Chars("a", 1), Chars("a", 64), Chars("a", 65), Chars("a", 3) \o Chars("-", 1) \o Chars("7", 2),
      Chars("A", 4), Chars("a", 2) \o Chars(" ", 1) \o Chars("a", 2), Chars("e'", 3) }
NameTexts ==
    { <<>>, Chars("A", 1), Chars("A", 128), Chars("A", 129), Chars("e'", 64), Chars("e'", 65),
      Chars("A", 2) \o Chars(" ", 1) \o Chars("e'", 125) }
DescriptionTexts ==
    { <<>>, Chars("a", 512), Chars("a", 513), Chars("e'", 256), Chars("e'", 257) }
VersionTexts == { "", "1.0.0", "0.3.1", "1.0", "one" }
ReqTexts == { ">=0.2.0", "<0.3.0", "^0.2", ">=9.0.0", "nonsense" }
PlatformLists ==
    { <<>>, <<"linux">>, <<"windows", "linux">>, <<"macos">>, <<"linux", "beos">>,
      <<"windows", "linux", "macos">>, <<"unknown">> }

GoodManifest ==
    PluginManifest(Chars("a", 4) \o Chars("-", 1) \o Chars("7", 1), Chars("A", 4), "1.0.0", Chars("A", 6),
                   Chars("a", 20), ">=0.2.0", <<"windows", "linux">>)

\* the manifests explored: at most two fields differ from GoodManifest
FieldTexts ==
    [id |-> IdTexts, name |-> NameTexts, version |-> VersionTexts, author |-> NameTexts,
     description |-> DescriptionTexts, capscr |-> ReqTexts, platforms |-> PlatformLists]
Variants(ms) ==
    UNION { UNION { {[m EXCEPT ![f] = v] : v \in FieldTexts[f]} : f \in DOMAIN FieldTexts } : m \in ms }
Manifests == Variants(Variants({GoodManifest}))
\* the manifests is_compatible is tried on: requirement and platforms vary
CompatManifests ==
    { [GoodManifest EXCEPT !.capscr = r, !.platforms = ps] : r \in ReqTexts, ps \in PlatformLists }

\* the host a build runs on: CARGO_PKG_VERSION and the cfg! platform
Hosts ==
    [version : {"0.2.0", "0.3.1", "1.0.0"}, platform : {"windows", "linux", "macos", "unknown"}]

\* a validate that measures the three free-text fields in characters
ValidateCountingChars(m) ==
    IF IsEmpty(m.id) THEN Err("EmptyId")
    ELSE IF \E k \in DOMAIN m.id : ~IsIdChar(m.id[k].c) THEN Err("InvalidIdChars")
    ELSE IF CharCount(m.id) > 64 THEN Err("IdTooLong")
    ELSE IF IsEmpty(m.name) THEN Err("EmptyName")
    ELSE IF CharCount(m.name) > 128 THEN Err("NameTooLong")
    ELSE IF m.version = "" THEN Err("EmptyVersion")
    ELSE IF ~SemverParse(m.version).some THEN Err("InvalidVersion")
    ELSE IF IsEmpty(m.author) THEN Err("EmptyAuthor")
    ELSE IF CharCount(m.author) > 128 THEN Err("AuthorTooLong")
    ELSE IF CharCount(m.description) > 512 THEN Err("DescriptionTooLong")
    ELSE IF ~ReqParse(m.capscr).some THEN Err("InvalidRequirement")
    ELSE IF m.platforms = <<>> THEN Err("NoPlatform")
    ELSE IF \E k \in DOMAIN m.platforms : m.platforms[k] \notin {"windows", "linux", "macos"}
    THEN Err("InvalidPlatform")
    ELSE Ok

\* PluginManifest::validate
Validate(m) ==
    IF IsEmpty(m.id) THEN Err("EmptyId")
    ELSE IF \E k \in DOMAIN m.id : ~IsIdChar(m.id[k].c) THEN Err("InvalidIdChars")
    ELSE IF ByteLen(m.id) > 64 THEN Err("IdTooLong")
    ELSE IF IsEmpty(m.name) THEN Err("EmptyName")
    ELSE IF ByteLen(m.name) > 128 THEN Err("NameTooLong")
    ELSE IF m.version = "" THEN Err("EmptyVersion")
    ELSE IF ~SemverParse(m.version).some THEN Err("InvalidVersion")
    ELSE IF IsEmpty(m.author) THEN Err("EmptyAuthor")
    ELSE IF ByteLen(m.author) > 128 THEN Err("AuthorTooLong")
    ELSE IF ByteLen(m.description) > 512 THEN Err("DescriptionTooLong")
    ELSE IF ~ReqParse(m.capscr).some THEN Err("InvalidRequirement")
    ELSE IF m.platforms = <<>> THEN Err("NoPlatform")
    ELSE IF \E k \in DOMAIN m.platforms : m.platforms[k] \notin {"windows", "linux", "macos"}
    THEN Err("InvalidPlatform")
    ELSE Ok

\* the error of is_compatible that names the requirement and the installed version
IncompatibleVersion(capscr, installed) ==
    [tag |-> "Err", err |-> "IncompatibleVersion", requires |-> capscr, installed |-> installed]

\* an is_compatible that looks at the platform first
IsCompatiblePlatformFirst(m, host) ==
    LET requirement == ReqParse(m.capscr) IN
    IF ~requirement.some THEN Err("InvalidRequirement")
    ELSE IF \A k \in DOMAIN m.platforms : m.platforms[k] # host.platform
    THEN Err("UnsupportedPlatform")
    ELSE IF ~ReqMatches(requirement.val, SemverParse(host.version).val)
    THEN IncompatibleVersion(m.capscr, host.version)
    ELSE Ok

\* PluginManifest::is_compatible
IsCompatible(m, host) ==
    LET current == SemverParse(host.version)
        requirement == ReqParse(m.capscr)
    IN  IF ~current.some THEN Err("InvalidHostVersion")
        ELSE IF ~requirement.some THEN Err("InvalidRequirement")
        ELSE IF ~ReqMatches(requirement.val, current.val)
        THEN IncompatibleVersion(m.capscr, host.version)
        ELSE IF \A k \in DOMAIN m.platforms : m.platforms[k] # host.platform
        THEN Err("UnsupportedPlatform")
        ELSE Ok

\* the manager's variables play no part here: op is the call, ret its result
CallValidate(m) ==
    /\ op' = [name |-> "validate", arg |-> m]
    /\ ret' = Validate(m)
    /\ UNCHANGED <<dirs, zips, plugins, discovered, enabled, lazy_loading, errors, calls,
                   released, teardown, sandbox, wcall, written, overflow_checks>>

CallIsCompatible(m, host) ==
    /\ op' = [name |-> "is_compatible", arg |-> m, host |-> host]
    /\ ret' = IsCompatible(m, host)
    /\ UNCHANGED <<dirs, zips, plugins, discovered, enabled, lazy_loading, errors, calls,
                   released, teardown, sandbox, wcall, written, overflow_checks>>

MNext ==
    \/ \E m \in Manifests : CallValidate(m)
    \/ \E m \in CompatManifests : \E host \in Hosts : CallIsCompatible(m, host)

SpecManifest == WInit /\ [][MNext]_vars

\* ------------------------------------------------------------------------
\* A manager over plugins roots whose packages fail in every way the loader
\* and discovery distinguish (SpecLoad)
\* ------------------------------------------------------------------------
\* a package whose manifest is fine and whose library cannot be resolved
NoLibrary(p) == p.man = "ok" /\ p.lib \in {"noentry", "nofile"}

LoadDirs ==
    { f \in [DirNames -> {GoodPkg("a", 1), GoodPkg("b", 1), GoodPkg("c", 1),
                          Pkg("b", 1, "ok", "noentry", TRUE), Pkg("b", 1, "ok", "nofile", TRUE),
                          Pkg("c", 1, "ok", "present", FALSE), Pkg("c", 1, "missing", "present", TRUE)}] :
        \A d \in DirNames : f[d].id = d }

\* entries packed next to the manifest and the library: plain ones, a "."
\* component, ".." components that stay below the extraction directory,
\* ".." components that leave it, and an absolute name
CraftedEntries ==
    << <<"assets", "icon.png">>, <<".", "notes">>, <<"assets", "..", "readme">>,
       <<"..", "evil.so">>, <<"assets", "..", "..", "..", "x">>, <<"/", "etc", "passwd">> >>

\* the archive in the plugins root: a package for an id that has a directory
LoadZips ==
    [ZipNames ->
        {[arch |-> "ok", pkg |-> p, extra |-> CraftedEntries] :
            p \in {GoodPkg("b", 3), Pkg("c", 3, "ok", "nofile", TRUE)}
                  \cup {Pkg("b", 3, man, "present", TRUE) :
                           man \in {"missing", "unparsable", "invalid", "incompatible"}}}
        \cup {[arch |-> "ok", pkg |-> GoodPkg("b", 3), extra |-> <<>>],
              [arch |-> "corrupt", pkg |-> NoDir]}]

LInit ==
    /\ dirs \in LoadDirs
    /\ zips \in LoadZips
    /\ plugins = <<>>
    /\ discovered = <<>>
    /\ enabled = TRUE
    /\ lazy_loading = TRUE
    /\ op = [name |-> "new", arg |-> "none"]
    /\ ret = Ok
    /\ errors = <<>>
    /\ calls = <<>>
    /\ released = <<>>
    /\ teardown = <<>>
    /\ sandbox = NoSandbox
    /\ wcall = NoCall
    /\ written = {}
    /\ overflow_checks = FALSE

LNext ==
    \/ \E b \in BOOLEAN : SetLazyLoading(b)
    \/ \E d \in DirNames : CallLoadFromDirectory(d)
    \/ \E z \in ZipNames : CallInstallFromZip(z)
    \/ CallLoadPending
    \/ \E entries \in Orders : CallLoadAll(entries, TRUE)
    \/ CallLoadAll(<<>>, FALSE)
    \/ \E id \in Ids : CallUnload(id)

SpecLoad == LInit /\ [][LNext]_vars

\* ========================================================================
\* Properties
\* ========================================================================
IsDispatch == op.name = "dispatch"
CancelAt(i) == calls[i].response.tag = "Cancel"
ModifiedAt(i) == calls[i].response.tag = "ModifiedImage"

\* C1: in every reachable state no plugin id occurs twice in the union of the
\* loaded set and the discovered set: not twice in loaded, not twice in
\* discovered, and not once in each.
C1_UniqueIds ==
    LET all == List(plugins, discovered) IN
    \A i, j \in DOMAIN all : i # j => all[i].id # all[j].id

\* C1 witness: a registration was refused as a duplicate while both sets hold plugins
C1_Witness ==
    /\ op.name = "load_all"
    /\ \E k \in DOMAIN errors : errors[k].err = "DuplicatePluginId"
    /\ plugins # <<>>
    /\ discovered # <<>>

\* C3: during one dispatch, if some loaded plugin responds Cancel, no plugin
\* after it in load order has on_event invoked in that dispatch and dispatch
\* returns Cancel, also when an earlier plugin had responded ModifiedImage.
C3_CancelHalts ==
    IsDispatch =>
        \A i \in DOMAIN calls :
            CancelAt(i) =>
                /\ i = Len(calls)
                /\ ret = Cancel
                /\ calls[i].id = plugins[i].manifest.id
                /\ \A j \in (i + 1)..Len(plugins) :
                      \A k \in DOMAIN calls : calls[k].id # plugins[j].manifest.id

\* C3 witness: ModifiedImage from the first plugin, Cancel from the second, a third loaded
C3_Witness ==
    /\ IsDispatch
    /\ Len(plugins) = 3
    /\ Len(calls) = 2
    /\ ModifiedAt(1)
    /\ CancelAt(2)
    /\ ret = Cancel

\* C4: for an enabled manager and loaded plugins none of which responds Cancel,
\* dispatch returns ModifiedImage(X), X the image of the last plugin in load
\* order that responded ModifiedImage, and Continue when none did; with no
\* plugin at all it returns Continue for each of the six event variants.
C4_LastModifiedWins ==
    (IsDispatch /\ enabled /\ \A i \in DOMAIN calls : ~CancelAt(i)) =>
        LET mods == {i \in DOMAIN calls : ModifiedAt(i)} IN
        /\ Len(calls) = Len(plugins)
        /\ op.arg \in PluginEvent
        /\ mods = {} => ret = Continue
        /\ mods # {} =>
              LET last == CHOOSE i \in mods : \A j \in mods : j <= i IN
              ret = ModifiedImage(calls[last].response.image)

\* C4 witness: two plugins answered ModifiedImage with different images, a third Continue
C4_Witness ==
    /\ IsDispatch
    /\ enabled
    /\ Len(calls) = 3
    /\ ModifiedAt(1)
    /\ ModifiedAt(2)
    /\ calls[3].response = Continue
    /\ calls[1].response.image # calls[2].response.image
    /\ ret = calls[2].response

\* C5: within one dispatch every invoked plugin's on_event receives the event
\* passed to dispatch, unchanged (a ModifiedImage of an earlier plugin is not
\* substituted into it), and each loaded plugin is invoked at most once, in
\* load order.
C5_SameEvent ==
    IsDispatch =>
        /\ Len(calls) <= Len(plugins)
        /\ \A i \in DOMAIN calls :
              /\ calls[i].event = op.arg
              /\ calls[i].id = plugins[i].manifest.id
              /\ \A j \in DOMAIN calls : i # j => calls[i].id # calls[j].id

\* C5 witness: a plugin is called after an earlier one answered ModifiedImage to an image event
C5_Witness ==
    /\ IsDispatch
    /\ Len(calls) >= 2
    /\ ModifiedAt(1)
    /\ op.arg.image # "none"
    /\ calls[2].event.image = "img0"

Known(ps, ds, id) == HasId(ps, id) \/ HasId(ds, id)

\* C2: whenever a plugin with id X is already registered, in the loaded or the
\* discovered set, every later attempt to register another plugin with id X
\* (here Manager::load_from_directory of another directory, and
\* Manager::install_from_zip of an archive) fails with the duplicate-id error
\* and leaves the first registration as it was.
C2_DuplicateRejected ==
    [][ /\ ( /\ op'.name = "load_from_directory"
             /\ LoaderLoadFromDirectory(dirs, op'.arg).res = Ok
             /\ \/ HasId(plugins, dirs[op'.arg].id)
                \/ \E i \in DOMAIN discovered :
                      /\ discovered[i].manifest.id = dirs[op'.arg].id
                      /\ discovered[i].directory # op'.arg )
           => ( /\ ret' = Err("DuplicatePluginId")
                /\ plugins' = plugins
                /\ discovered' = discovered )
        /\ ( /\ op'.name = "install_from_zip"
             /\ LoaderInstallFromZip(dirs, zips, op'.arg).res = Ok
             /\ zips[op'.arg].pkg.lib = "present"
             /\ zips[op'.arg].pkg.builds
             /\ Known(plugins, discovered, zips[op'.arg].pkg.id) )
           => ( /\ ret' = Err("DuplicatePluginId")
                /\ plugins' = plugins
                /\ discovered' = discovered )
      ]_vars

\* C6: when the manager is disabled, dispatch returns Continue for every event,
\* invokes on_event on no plugin and changes nothing: the loaded set, the
\* discovered set (no promotion, even in lazy mode) and both flags stay.
C6_DisabledDispatch ==
    [][ (op'.name = "dispatch" /\ ~enabled) =>
            /\ ret' = Continue
            /\ calls' = <<>>
            /\ errors' = <<>>
            /\ released' = <<>>
            /\ UNCHANGED <<plugins, discovered, enabled, lazy_loading>>
      ]_vars

\* C6 witness: a disabled lazy manager has dispatched with plugins loaded and pending
C6_Witness ==
    /\ IsDispatch
    /\ ~enabled
    /\ lazy_loading
    /\ plugins # <<>>
    /\ discovered # <<>>
    /\ ret = Continue
    /\ calls = <<>>

\* C7: set_enabled changes only the enabled flag, and nothing changes while the
\* manager is disabled and only dispatches happen: across set_enabled(false),
\* any dispatches, set_enabled(true), the loaded set with its order and every
\* handle, the discovered set and the lazy flag are what they were, which is
\* all that the next dispatch reads.
C7_ToggleKeepsState ==
    [][ /\ op'.name = "set_enabled" =>
              /\ enabled' = op'.arg
              /\ UNCHANGED <<plugins, discovered, lazy_loading, dirs, zips>>
        /\ (op'.name = "dispatch" /\ ~enabled) =>
              UNCHANGED <<plugins, discovered, lazy_loading, enabled, dirs, zips>>
      ]_vars

\* C7 witness: re-enabled, with plugins loaded (one has seen an event) and pending
C7_Witness ==
    /\ op.name = "set_enabled"
    /\ op.arg = TRUE
    /\ enabled
    /\ discovered # <<>>
    /\ \E i \in DOMAIN plugins : EventsSeen(plugins[i].handle) > 0

\* C8: in lazy mode with the manager enabled, dispatch first tries to load
\* every pending plugin; each one that loads is appended to the loaded set and
\* receives the event in the same dispatch (unless an earlier plugin
\* cancelled); a load failure is only collected and logged, and keeps no other
\* pending or loaded plugin from receiving the event.
C8_LazyPromotion ==
    [][ (op'.name = "dispatch" /\ enabled /\ lazy_loading) =>
            /\ Len(plugins') >= Len(plugins)
            /\ \A i \in DOMAIN plugins : plugins'[i].manifest = plugins[i].manifest
            /\ \A k \in DOMAIN discovered :
                  LET l == LoaderLoadFromDirectory(dirs, discovered[k].directory) IN
                  /\ l.res = Ok =>
                        \E i \in DOMAIN plugins' :
                            /\ plugins'[i].manifest = l.loaded.manifest
                            /\ i > Len(plugins) \/ HasId(plugins, l.loaded.manifest.id)
                  /\ l.res # Ok =>
                        \E e \in DOMAIN errors' :
                            errors'[e] = PathError(discovered[k].directory, l.res)
            /\ \/ Len(calls') = Len(plugins')
               \/ calls'[Len(calls')].response = Cancel
            /\ \A i \in DOMAIN calls' : calls'[i].id = plugins'[i].manifest.id
      ]_vars

\* C8 witness: a lazy dispatch in which a pending plugin failed to load and
\* the other plugins, loaded in that dispatch, all received the event
C8_Witness ==
    /\ IsDispatch
    /\ enabled
    /\ lazy_loading
    /\ errors # <<>>
    /\ Len(plugins) = 2
    /\ Len(calls) = 2
    /\ \A i \in DOMAIN plugins : plugins[i].handle.trace = <<"on_load", "on_event">>

IsLoadCall == op.name \in {"load_from_directory", "install_from_zip"}

\* C9: every successful Manager::load_from_directory or install_from_zip calls
\* on_load exactly once on the new handle, before the plugin is appended to
\* the loaded set and before any on_event reaches it; a failed load calls
\* on_load zero times.
C9_OnLoadOnce ==
    /\ \A i \in DOMAIN plugins :
          LET t == plugins[i].handle.trace IN
          /\ t # <<>>
          /\ t[1] = "on_load"
          /\ CountOf(t, "on_load") = 1
    /\ (IsLoadCall /\ ret = Ok) =>
          /\ plugins # <<>>
          /\ plugins[Len(plugins)].handle.trace = <<"on_load">>
          /\ released = <<>>
    /\ (IsLoadCall /\ ret.tag = "Err") =>
          \A k \in DOMAIN released : CountOf(released[k].trace, "on_load") = 0

\* C9 witness: an archive was installed and loaded next to an earlier plugin
C9_Witness ==
    /\ op.name = "install_from_zip"
    /\ ret = Ok
    /\ Len(plugins) >= 2
    /\ plugins[Len(plugins)].handle.trace = <<"on_load">>

\* C10 as stated: unload(id) on a known id removes it from both sets, on_unload
\* fires exactly once, and list(), get(id) and count() no longer show it.
C10_OnUnloadOnKnown ==
    [][ (op'.name = "unload" /\ Known(plugins, discovered, op'.arg)) =>
            /\ ~Known(plugins', discovered', op'.arg)
            /\ Get(plugins', discovered', op'.arg).id = "none"
            /\ Count(plugins', discovered') = Count(plugins, discovered) - 1
            /\ Len(released') = 1
            /\ CountOf(released'[1].trace, "on_unload") = 1
      ]_vars

\* C10 amended: unload(id) on a known id removes it from both sets, so that
\* list(), get(id) and count() (one less) no longer show it until it is
\* registered again; on_unload fires exactly once if the id was loaded, and
\* not at all if it was only discovered.
C10_UnloadRemoves ==
    [][ /\ (op'.name = "unload" /\ Known(plugins, discovered, op'.arg)) =>
              /\ ~Known(plugins', discovered', op'.arg)
              /\ \A k \in DOMAIN List(plugins', discovered') :
                    List(plugins', discovered')[k].id # op'.arg
              /\ Get(plugins', discovered', op'.arg).id = "none"
              /\ Count(plugins', discovered') = Count(plugins, discovered) - 1
              /\ IF HasId(plugins, op'.arg)
                 THEN /\ ret'.tag = "true"
                      /\ released' = <<OnUnload(plugins[Position(plugins, op'.arg, 1)].handle)>>
                      /\ CountOf(released'[1].trace, "on_unload") = 1
                 ELSE /\ ret'.tag = "false"
                      /\ released' = <<>>
        /\ \A id \in Ids :
              ( /\ ~Known(plugins, discovered, id)
                /\ op'.name \in {"unload", "set_enabled", "set_lazy_loading"} )
              => ~Known(plugins', discovered', id)
      ]_vars

\* C10 witness: a loaded plugin that had seen an event was unloaded, another one stays
C10_Witness ==
    /\ op.name = "unload"
    /\ ret.tag = "true"
    /\ released = <<[trace |-> <<"on_load", "on_event", "on_unload">>]>>
    /\ plugins # <<>>
    /\ ~Known(plugins, discovered, op.arg)

\* C11: unload(id) with an id that is in neither the loaded nor the discovered
\* set returns false, calls on_unload on no plugin, and leaves the loaded set,
\* its order, the discovered set and both flags unchanged.
C11_UnloadUnknown ==
    [][ (op'.name = "unload" /\ ~Known(plugins, discovered, op'.arg)) =>
            /\ ret'.tag = "false"
            /\ released' = <<>>
            /\ teardown' = <<>>
            /\ UNCHANGED <<plugins, discovered, enabled, lazy_loading>>
      ]_vars

\* C11 witness: an id no plugin of the root carries was unloaded while plugins
\* are loaded (one has seen an event) and pending
C11_Witness ==
    /\ op.name = "unload"
    /\ op.arg = "c"
    /\ \A d \in DirNames : dirs[d].id # "c"
    /\ ret.tag = "false"
    /\ discovered # <<>>
    /\ \E i \in DOMAIN plugins : EventsSeen(plugins[i].handle) > 0

TeardownAt(ev) == {k \in DOMAIN teardown : teardown[k].ev = ev}

\* C12: dropping the manager calls on_unload exactly once on every plugin that
\* is loaded at that moment, enabled or not, and all these calls are over
\* before any plugin object or library is released; plugins that are only
\* discovered receive no call.
C12_DropUnloadsAll ==
    [][ op'.name = "drop" =>
            /\ Len(released') = Len(plugins)
            /\ \A i \in DOMAIN plugins :
                  /\ released'[i] = OnUnload(plugins[i].handle)
                  /\ CountOf(released'[i].trace, "on_unload") = 1
                  /\ Cardinality({k \in DOMAIN teardown' :
                         teardown'[k] = UnloadEvent(plugins[i].manifest.id)}) = 1
            /\ \A k \in DOMAIN teardown' :
                  /\ HasId(plugins, teardown'[k].id)
                  /\ ~HasId(discovered, teardown'[k].id)
                  /\ teardown'[k].ev = "on_unload" =>
                        \A j \in DOMAIN teardown' :
                            teardown'[j].ev # "on_unload" => k < j
      ]_vars

\* C12 witness: a disabled manager with two loaded plugins and a pending one was dropped
C12_Witness ==
    /\ op.name = "drop"
    /\ ~enabled
    /\ Len(released) = 2
    /\ Cardinality(TeardownAt("on_unload")) = 2
    /\ Cardinality(TeardownAt("release_library")) = 2
    /\ \E d \in DirNames : dirs[d].id = "c" /\ dirs[d].builds

\* C13: on every path that disposes of a native handle (unload, manager drop,
\* rejection as a duplicate after construction) the library is released
\* strictly after the plugin object was dropped, and the object of a loaded
\* plugin is dropped strictly after its on_unload returned: the object never
\* exists while its library is released.
C13_LibraryOutlivesPlugin ==
    /\ \A k \in TeardownAt("release_library") :
          /\ k > 1
          /\ teardown[k - 1] = [id |-> teardown[k].id, ev |-> "drop_plugin"]
    /\ \A k \in TeardownAt("drop_plugin") :
          /\ k < Len(teardown)
          /\ teardown[k + 1] = [id |-> teardown[k].id, ev |-> "release_library"]
          /\ op.name \in {"unload", "drop"} =>
                \E j \in TeardownAt("on_unload") : teardown[j].id = teardown[k].id /\ j < k
    /\ Cardinality(TeardownAt("drop_plugin")) = Len(released)
    /\ Cardinality(TeardownAt("release_library")) = Len(released)

\* C13 witness: a load_all that rejected a constructed duplicate, so that its
\* handle was disposed of while two plugins are loaded
C13_Witness ==
    /\ op.name = "load_all"
    /\ Len(plugins) = 2
    /\ Len(released) = 1
    /\ teardown = Dispose("a")

\* ------------------------------------------------------------------------
\* Sandbox properties (under SpecWasm)
\* ------------------------------------------------------------------------
WasmPos == Position(plugins, WasmId, 1)
FailedOutcomes == {"out_of_fuel", "trap", "no_export", "bad_signature"}

\* C14: an on_event call of a WASM plugin in which the module runs out of
\* fuel, traps, has no on_event export or exports it with another signature
\* answers Continue; the manager records no error, the plugins behind it in
\* the same dispatch are still called, and the plugin stays loaded.
C14_FailureIsContinue ==
    (IsDispatch /\ wcall.name = "on_event" /\ wcall.outcome \in FailedOutcomes) =>
        /\ wcall.response = "Continue"
        /\ ret = Continue
        /\ errors = <<>>
        /\ HasId(plugins, WasmId)
        /\ Len(calls) = Len(plugins)
        /\ calls[WasmPos].id = WasmId
        /\ calls[WasmPos].response = Continue

\* C14 witness: the module wrote a pixel and trapped, and the native plugin
\* behind it got the event
C14_Witness ==
    /\ IsDispatch
    /\ wcall.name = "on_event"
    /\ wcall.outcome = "trap"
    /\ sandbox.state.modified
    /\ Len(plugins) = 2
    /\ WasmPos = 1
    /\ calls[2].id = NativeId

IsBusyLoop(prog) == prog # <<>> /\ prog[Len(prog)].op = "loop"

\* C15: an on_event that never returns on its own (busy loop) ends once the
\* per-event fuel is consumed, after at most that many metered steps; the
\* plugin's response is Continue and the dispatch completes.
C15_BusyLoopTerminates ==
    (IsDispatch /\ wcall.name = "on_event" /\ IsBusyLoop(wcall.prog)) =>
        /\ wcall.outcome = "out_of_fuel"
        /\ wcall.steps <= WASM_EVENT_FUEL
        /\ sandbox.fuel = 0
        /\ wcall.response = "Continue"
        /\ ret = Continue
        /\ Len(calls) = Len(plugins)

\* C15 witness: a module that does nothing but loop, with a plugin behind it
C15_Witness ==
    /\ IsDispatch
    /\ wcall.name = "on_event"
    /\ wcall.prog = <<Loop>>
    /\ wcall.steps = WASM_EVENT_FUEL
    /\ Len(calls) = 2
    /\ calls[1].id = WasmId

\* C16: every on_event invocation starts with the store's fuel equal to
\* WASM_EVENT_FUEL, whatever earlier calls consumed and whether or not one of
\* them ran out of fuel.
C16_FuelReset ==
    wcall.name = "on_event" => wcall.fuel_start = WASM_EVENT_FUEL

\* C16 witness: the second on_event of a plugin whose store had no fuel left
C16_Witness ==
    /\ IsDispatch
    /\ wcall.name = "on_event"
    /\ wcall.fuel_before = 0
    /\ wcall.outcome = "returned"
    /\ EventsSeen(plugins[WasmPos].handle) = 2

\* C17: construction sets the store's fuel to a startup budget strictly
\* smaller than the per-event budget, and every on_load and on_unload call
\* starts with exactly WASM_LIFECYCLE_FUEL.
C17_StartupBudget ==
    /\ wcall.name = "on_load" => wcall.fuel_set < WASM_EVENT_FUEL
    /\ wcall.name \in {"on_load", "on_unload"} => wcall.fuel_start = WASM_LIFECYCLE_FUEL

Rejected(image) ==
    image.raw.len # image.width * image.height * 4 \/ image.raw.len > MAX_PLUGIN_IMAGE_BYTES
Coords == {0, 1, 2, 5}

\* C18: set_image with a byte length different from width*height*4, or above
\* the cap, leaves no image (data absent, width and height 0, modified
\* false); as long as there is no image get_pixel returns 0 and set_pixel
\* writes nothing (neither computes an index then, so neither can panic).
C18_BadImageLeavesNone ==
    /\ (wcall.name = "on_event" /\ wcall.image.some /\ Rejected(wcall.image.val)) =>
          /\ sandbox.state = WasmState(None, 0, 0, FALSE)
          /\ \A k \in DOMAIN wcall.reads : wcall.reads[k] = 0
          /\ wcall.response # "ModifiedImage"
    /\ (sandbox.status = "built" /\ ~sandbox.state.image_data.some) =>
          \A x, y \in Coords :
              /\ GetPixel(sandbox.state, x, y) = 0
              /\ SetPixel(sandbox.state, x, y, 16909060) = sandbox.state

\* C18 witness: a second event brought a 1x1 image in a container of 8 bytes,
\* and the module wrote a pixel, read it back and answered 2
C18_Witness ==
    /\ IsDispatch
    /\ wcall.name = "on_event"
    /\ wcall.image = Some(ImgLong)
    /\ wcall.prog = Writing
    /\ wcall.reads = <<0>>
    /\ wcall.result = 2
    /\ EventsSeen(plugins[WasmPos].handle) = 2

\* C19: in every sandbox state, image data that is present has length
\* image_width*image_height*4 and at most MAX_PLUGIN_IMAGE_BYTES; when it is
\* absent width and height are 0; modified implies data present;
\* get_modified_image gives an image only when modified is set, and that
\* image has the stored width and height.
C19_SandboxInvariant ==
    sandbox.status = "built" =>
        LET st == sandbox.state
            got == GetModifiedImage(st)
        IN  /\ st.image_data.some =>
                  /\ st.image_data.val.len = st.image_width * st.image_height * 4
                  /\ st.image_data.val.len <= MAX_PLUGIN_IMAGE_BYTES
            /\ ~st.image_data.some => (st.image_width = 0 /\ st.image_height = 0)
            /\ st.modified => st.image_data.some
            /\ got.some => (st.modified /\ got.val.width = st.image_width
                                       /\ got.val.height = st.image_height)
            /\ (wcall.name = "on_event" /\ wcall.out_image.some) =>
                  /\ st.modified
                  /\ wcall.out_image.val.width = st.image_width
                  /\ wcall.out_image.val.height = st.image_height
                  /\ wcall.out_image.val.raw = st.image_data.val

\* C19 witness: a module wrote into a 2x1 image and the host took it back
C19_Witness ==
    /\ sandbox.status = "built"
    /\ sandbox.state.modified
    /\ sandbox.state.image_width = 2
    /\ wcall.out_image.some
    /\ wcall.out_image.val.raw.len = 8

\* C20: on_event passes event_type 1..6 for PreCapture, PostCapture, PreSave,
\* PostSave, PreUpload, PostUpload; the module's return value 1 becomes
\* Cancel, 2 becomes ModifiedImage when a modified image is available and
\* Continue otherwise, every other 32-bit value becomes Continue.
C20_EventTypeAndResult ==
    wcall.name = "on_event" =>
        /\ wcall.kind = "PreCapture" => wcall.event_type = 1
        /\ wcall.kind = "PostCapture" => wcall.event_type = 2
        /\ wcall.kind = "PreSave" => wcall.event_type = 3
        /\ wcall.kind = "PostSave" => wcall.event_type = 4
        /\ wcall.kind = "PreUpload" => wcall.event_type = 5
        /\ wcall.kind = "PostUpload" => wcall.event_type = 6
        /\ wcall.outcome = "returned" =>
              LET v == wcall.prog[Len(wcall.prog)].v
                  available == sandbox.state.modified /\ sandbox.state.image_data.some
              IN  /\ v = 1 => wcall.response = "Cancel"
                  /\ (v = 2 /\ available) => wcall.response = "ModifiedImage"
                  /\ (v = 2 /\ ~available) => wcall.response = "Continue"
                  /\ v \notin {1, 2} => wcall.response = "Continue"
                  /\ IsDispatch => calls[WasmPos].response.tag = wcall.response

\* C20 witness: the module returned the smallest 32-bit value for a PostCapture
C20_Witness ==
    /\ IsDispatch
    /\ wcall.name = "on_event"
    /\ wcall.kind = "PostCapture"
    /\ wcall.outcome = "returned"
    /\ wcall.result = -2147483647 - 1
    /\ wcall.response = "Continue"

InBounds(st, x, y) == st.image_data.some /\ x < st.image_width /\ y < st.image_height
PixelValues == {0, 16909060, 2130706433, -1, -2147483647 - 1, -16909061, 2147483647}

\* C21: for a stored image, any in-bounds (x, y) and any 32-bit v,
\* set_pixel(x, y, v) followed by get_pixel(x, y) returns v; the pixel's
\* bytes are R=(v>>16)&0xFF, G=(v>>8)&0xFF, B=v&0xFF, A=(v>>24)&0xFF and the
\* bytes of every other pixel are unchanged.
C21_PixelRoundTrip ==
    /\ sandbox.status = "built" =>
          \A x, y \in Coords, v \in PixelValues :
              InBounds(sandbox.state, x, y) =>
                  LET st1 == SetPixel(sandbox.state, x, y, v)
                      idx == (y * sandbox.state.image_width + x) * 4
                      old == sandbox.state.image_data.val
                      new == st1.image_data.val
                  IN  /\ GetPixel(st1, x, y) = v
                      /\ new.len = old.len
                      /\ ByteAt(new, idx) = (v \div 65536) % 256
                      /\ ByteAt(new, idx + 1) = (v \div 256) % 256
                      /\ ByteAt(new, idx + 2) = v % 256
                      /\ ByteAt(new, idx + 3) = (v \div 16777216) % 256
                      /\ \A i \in 0..(old.len - 1) :
                            i \notin idx..(idx + 3) => ByteAt(new, i) = ByteAt(old, i)
    /\ (wcall.name = "on_event" /\ wcall.outcome = "returned" /\ Len(wcall.prog) = 3
        /\ wcall.prog[1].op = "set_pixel" /\ wcall.prog[2].op = "get_pixel"
        /\ wcall.prog[1].x = wcall.prog[2].x /\ wcall.prog[1].y = wcall.prog[2].y
        /\ InBounds(sandbox.state, wcall.prog[1].x, wcall.prog[1].y)) =>
          /\ wcall.reads = <<wcall.prog[1].v>>
          /\ wcall.image.some =>
                \A i \in 0..(wcall.image.val.raw.len - 1) :
                    i \notin (PixelIndex(sandbox.state, wcall.prog[1].x, wcall.prog[1].y)
                              ..(PixelIndex(sandbox.state, wcall.prog[1].x, wcall.prog[1].y) + 3))
                    => ByteAt(sandbox.state.image_data.val, i) = ByteAt(wcall.image.val.raw, i)

\* C21 witness: the module wrote 0x80000000 into the second pixel of a 2x1
\* image and read it back; the first pixel still has the image's bytes
C21_Witness ==
    /\ wcall.name = "on_event"
    /\ wcall.image = Some(Img2x1)
    /\ wcall.prog = WriteRead(1, 0, -2147483647 - 1)
    /\ wcall.reads = <<-2147483647 - 1>>
    /\ ByteAt(sandbox.state.image_data.val, 7) = 128
    /\ ByteAt(sandbox.state.image_data.val, 4) = 0
    /\ ByteAt(sandbox.state.image_data.val, 0) = 7

\* ------------------------------------------------------------------------
\* Manifest properties (under SpecManifest)
\* ------------------------------------------------------------------------
\* C22: validate() succeeds if and only if id is non-empty, at most 64
\* characters, made of lowercase ASCII letters, digits and hyphens; name is
\* non-empty and at most 128 characters; version is non-empty valid semver;
\* author is non-empty and at most 128 characters; description is at most 512
\* characters; the requirement parses as a semver range; platforms is
\* non-empty with every entry one of windows, linux, macos.
C22_ValidateIff ==
    op.name = "validate" =>
        LET m == op.arg IN
        (ret = Ok) <=>
            /\ CharCount(m.id) > 0 /\ CharCount(m.id) <= 64
            /\ \A k \in DOMAIN m.id : m.id[k].c \in {"a", "7", "-"}
            /\ CharCount(m.name) > 0 /\ CharCount(m.name) <= 128
            /\ m.version # "" /\ m.version \in {"1.0.0", "0.2.0", "0.3.1"}
            /\ CharCount(m.author) > 0 /\ CharCount(m.author) <= 128
            /\ CharCount(m.description) <= 512
            /\ m.capscr \in {">=0.2.0", "<0.3.0", "^0.2", ">=9.0.0"}
            /\ m.platforms # <<>>
            /\ \A k \in DOMAIN m.platforms : m.platforms[k] \in {"windows", "linux", "macos"}

\* the host version satisfies the requirement, written out for the texts of the model
Satisfies(installed, capscr) ==
    \/ capscr = ">=0.2.0"
    \/ capscr \in {"<0.3.0", "^0.2"} /\ installed = "0.2.0"

\* C23: is_compatible() succeeds if and only if the host version satisfies
\* the manifest's requirement and the host platform is listed in
\* compatibility.platforms; when the version fails the error is the
\* incompatible-version error naming the requirement and the host version,
\* whatever the platforms are: the platform is looked at only afterwards.
C23_IsCompatibleIff ==
    op.name = "is_compatible" =>
        LET m == op.arg
            listed == \E k \in DOMAIN m.platforms : m.platforms[k] = op.host.platform
        IN  /\ (ret = Ok) <=> (Satisfies(op.host.version, m.capscr) /\ listed)
            /\ (m.capscr # "nonsense" /\ ~Satisfies(op.host.version, m.capscr)) =>
                  ret = [tag |-> "Err", err |-> "IncompatibleVersion",
                         requires |-> m.capscr, installed |-> op.host.version]
            /\ (Satisfies(op.host.version, m.capscr) /\ ~listed) =>
                  (ret.tag = "Err" /\ ret.err = "UnsupportedPlatform")

\* C23 witness: neither the version nor the platform fits, and the error is
\* the one about the version
C23_Witness ==
    /\ op.name = "is_compatible"
    /\ op.arg.capscr = "^0.2"
    /\ op.host = [version |-> "1.0.0", platform |-> "macos"]
    /\ op.arg.platforms = <<"windows", "linux">>
    /\ ret.tag = "Err"
    /\ ret.err = "IncompatibleVersion"

\* ------------------------------------------------------------------------
\* Loading and installing properties (under SpecLoad)
\* ------------------------------------------------------------------------
LibraryErrors == {"MissingLibraryForPlatform", "LibraryNotFound"}
HasError(errs, path, kinds) == \E k \in DOMAIN errs : errs[k].path = path /\ errs[k].err \in kinds

\* C24: a plugin whose manifest has no library entry for this platform, or
\* whose library file is missing from its directory, is a hard failure when it
\* is loaded (load_from_directory, load_pending) and when it is discovered by
\* a lazy load_all: the call reports an error for it, and it is added neither
\* to the loaded nor to the discovered set.
C24_MissingLibraryFails ==
    [][/\ (op'.name = "load_from_directory" /\ NoLibrary(dirs[op'.arg])) =>
              /\ ret'.tag = "Err" /\ ret'.err \in LibraryErrors
              /\ plugins' = plugins
              /\ discovered' = discovered
       /\ op'.name = "load_pending" =>
              \A i \in DOMAIN discovered :
                  LET p == discovered[i] IN
                  (NoLibrary(dirs[p.directory]) /\ ~HasId(plugins, p.manifest.id)) =>
                      /\ HasError(errors', p.directory, LibraryErrors)
                      /\ ~HasId(plugins', p.manifest.id)
                      /\ ~HasId(discovered', p.manifest.id)
       /\ (op'.name = "load_all" /\ lazy_loading) =>
              \A d \in DirNames :
                  (NoLibrary(dirs[d]) /\ dirs'[d] = dirs[d] /\ ret' = ErrorList /\ errors' # <<>>
                   /\ errors'[1].err # "ReadDirError") =>
                      /\ HasError(errors', d, LibraryErrors)
                      /\ \A k \in DOMAIN discovered' : discovered'[k].directory # d
                      /\ plugins' = plugins
      ]_vars

\* C24 witness: load_pending met a queued plugin whose library file is gone,
\* reported it, and registered it nowhere
C24_Witness ==
    /\ op.name = "load_pending"
    /\ \E k \in DOMAIN errors : errors[k].err = "LibraryNotFound"
    /\ discovered = <<>>
    /\ \A k \in DOMAIN errors : ~HasId(plugins, dirs[errors[k].path].id)

BadManifests == {"missing", "unparsable", "invalid", "incompatible"}
ManifestErrors == {"NoManifest", "ManifestParseError", "ManifestValidationError", "Incompatible"}

\* C25: install_from_zip reads, validates and compatibility-checks the
\* archive's manifest before it touches the plugins root: with a manifest
\* that is missing, unparsable, invalid or incompatible the call fails, nothing
\* under the plugins root is created, removed or written, and the archive is
\* still there; the same holds for an archive that load_all comes across.
C25_BadManifestTouchesNothing ==
    [][\A z \in ZipNames :
          (zips[z].arch = "ok" /\ zips[z].pkg.man \in BadManifests) =>
              /\ (op'.name = "install_from_zip" /\ op'.arg = z) =>
                    /\ ret'.tag = "Err" /\ ret'.err \in ManifestErrors
                    /\ dirs' = dirs
                    /\ zips' = zips
                    /\ written' = {}
                    /\ plugins' = plugins
                    /\ discovered' = discovered
              /\ (op'.name = "load_all" /\ ret' = ErrorList /\ errors' # <<>>
                  /\ errors'[1].err # "ReadDirError") =>
                    /\ HasError(errors', z, ManifestErrors)
                    /\ dirs' = dirs
                    /\ zips' = zips
                    /\ written' = {}
      ]_vars

\* C25 witness: an archive with an incompatible manifest for an id whose
\* directory exists was refused, and both are still in place
C25_Witness ==
    /\ op.name = "install_from_zip"
    /\ ret = Err("Incompatible")
    /\ zips[op.arg].pkg.man = "incompatible"
    /\ dirs[zips[op.arg].pkg.id] = GoodPkg("b", 1)

\* C26: whatever install_from_zip creates or writes lies inside
\* plugins_root/<id>/, <id> the validated manifest id, also for archives with
\* entries whose names have ".." components or are absolute; the same holds
\* for an archive that load_all installs.
C26_WritesStayInside ==
    [][\A z \in ZipNames :
          ((op'.name = "install_from_zip" /\ op'.arg = z) \/ op'.name = "load_all") =>
              /\ written' # {} => zips[z].arch = "ok" /\ zips[z].pkg.man = "ok"
              /\ \A p \in written' : Inside(p, PluginDir(zips[z].pkg.id))
      ]_vars

\* C26 witness: an archive with escaping and absolute entry names was
\* installed; the enclosed entries were written, one of them through ".."
C26_Witness ==
    /\ op.name = "install_from_zip"
    /\ ret = Ok
    /\ <<"/", "plugins", "b", "readme">> \in written
    /\ <<"/", "plugins", "b", "assets", "icon.png">> \in written
    /\ <<"/", "plugins", "b", "notes">> \in written
    /\ <<"/", "plugins", "b", "plugin.so">> \in written

\* C27: an install_from_zip whose archive manifest id is the id of an already
\* loaded or discovered plugin fails before any state mutation: the installed
\* directory plugins_root/<id> of the existing plugin is neither removed nor
\* replaced, and the loaded and discovered sets are unchanged.
C27_DuplicateInstallTouchesNothing ==
    [][\A z \in ZipNames :
          (/\ op'.name = "install_from_zip" /\ op'.arg = z
           /\ zips[z].arch = "ok" /\ zips[z].pkg.man = "ok"
           /\ (HasId(plugins, zips[z].pkg.id) \/ HasId(discovered, zips[z].pkg.id))) =>
              /\ ret'.tag = "Err"
              /\ dirs' = dirs
              /\ plugins' = plugins
              /\ discovered' = discovered
      ]_vars

\* a directory of the plugins root that discovery accepts, and one that the
\* loader can load
Discoverable(ds, d) == ResolveLibrary(ds, d) = Ok
Loadable(ds, d) == Discoverable(ds, d) /\ ds[d].builds
Scanned == op'.name = "load_all" /\ (errors' = <<>> \/ errors'[1].err # "ReadDirError")
EntriesWithId(seq, id) == Cardinality({k \in DOMAIN seq : seq[k].manifest.id = id})

\* C28: load_all in lazy mode only queues: the loaded set is unchanged, no
\* plugin object is constructed and no on_load is called, and every valid
\* candidate whose id is not loaded already has one DiscoveredPlugin in the
\* discovered set. In eager mode the discovered set is empty when load_all
\* returns, and every valid candidate is in the loaded set with on_load
\* already called.
C28_LazyQueuesEagerLoads ==
    [][/\ (Scanned /\ lazy_loading) =>
              /\ plugins' = plugins
              /\ released' = <<>>
              /\ teardown' = <<>>
              /\ \A d \in DirNames :
                    Discoverable(dirs', d) =>
                        IF HasId(plugins, dirs'[d].id)
                        THEN ~HasId(discovered', dirs'[d].id)
                        ELSE /\ EntriesWithId(discovered', dirs'[d].id) = 1
                             /\ \E k \in DOMAIN discovered' : discovered'[k].directory = d
       /\ (Scanned /\ ~lazy_loading) =>
              /\ discovered' = <<>>
              /\ \A d \in DirNames : Loadable(dirs', d) => HasId(plugins', dirs'[d].id)
              /\ \A k \in DOMAIN plugins' :
                    /\ plugins'[k].handle.trace # <<>>
                    /\ plugins'[k].handle.trace[1] = "on_load"
      ]_vars

\* C28 witness: a lazy load_all installed an archive and queued three
\* candidates next to a loaded set it left empty
C28_Witness ==
    /\ op.name = "load_all"
    /\ lazy_loading
    /\ written # {}
    /\ Len(discovered) = 3
    /\ plugins = <<>>

\* C28 witness of the eager half: everything loadable was loaded, one failed
C28_WitnessEager ==
    /\ op.name = "load_all"
    /\ ~lazy_loading
    /\ Len(plugins) = 2
    /\ Len(errors) = 1
    /\ discovered = <<>>

\* the entries of the plugins root that a scan comes across
ScanEntries ==
    {d \in DirNames : dirs[d] # NoDir} \cup {z \in ZipNames : zips[z] # NoZip}
\* what a scan registered: the queue it rebuilt, or what it added to the loaded set
Registered == IF lazy_loading THEN Len(discovered') ELSE Len(plugins') - Len(plugins)
\* the errors a scan reports under one path
ErrorsAt(errs, path) == Cardinality({k \in DOMAIN errs : errs[k].path = path})
\* the archives of the root that install into directory d
ArchivesFor(d) == {z \in ZipNames : zips[z] # NoZip /\ zips[z].arch = "ok" /\ zips[z].pkg.id = dirs[d].id}

LoadedTrace(t) ==
    /\ t # <<>>
    /\ t[1] = "on_load"
    /\ \A k \in 2..Len(t) : t[k] = "on_event"
\* the callbacks of an instance that was loaded and is gone: on_unload ends them
FinishedTrace(t) ==
    /\ Len(t) >= 2
    /\ t[Len(t)] = "on_unload"
    /\ LoadedTrace(SubSeq(t, 1, Len(t) - 1))

\* C30: over the life of a manager every plugin instance that enters the
\* loaded set sees on_load, then zero or more on_event, then on_unload:
\* no on_event before on_load or after on_unload, and on_unload once at most;
\* an instance removed by unload(id) has left the loaded set, so the drop of
\* the manager does not unload it again. An instance that never entered the
\* loaded set (a constructed duplicate) sees no callback at all.
C30_CallbackOrder ==
    [][/\ \A i \in DOMAIN plugins' : LoadedTrace(plugins'[i].handle.trace)
       /\ \A i \in DOMAIN released' :
             \/ released'[i].trace = <<>>
             \/ /\ FinishedTrace(released'[i].trace)
                /\ \E j \in DOMAIN plugins : released'[i] = OnUnload(plugins[j].handle)
                /\ \A j \in DOMAIN plugins' : plugins'[j].handle # released'[i]
       /\ (op'.name = "unload" /\ released' # <<>>) =>
             /\ Len(released') = 1
             /\ ~HasId(plugins', op'.arg)
             /\ Len(plugins') = Len(plugins) - 1
       /\ op'.name = "drop" =>
             /\ plugins' = <<>>
             /\ Len(released') = Len(plugins)
       /\ \A i \in DOMAIN plugins' :
             \/ \E j \in DOMAIN plugins :
                   /\ plugins[j].manifest = plugins'[i].manifest
                   /\ plugins'[i].handle \in {plugins[j].handle, OnEvent(plugins[j].handle)}
             \/ plugins'[i].handle.trace \in {<<"on_load">>, <<"on_load", "on_event">>}
      ]_vars

\* C30 witness: unload released an instance that had seen on_load, on_event
\* and on_unload, in this order, while two other plugins stay loaded
C30_Witness ==
    /\ op.name = "unload"
    /\ ret.tag = "true"
    /\ Len(released) = 1
    /\ released[1].trace = <<"on_load", "on_event", "on_unload">>
    /\ Len(plugins) = 2

\* ------------------------------------------------------------------------
\* Sandbox image properties (under SpecWasm)
\* ------------------------------------------------------------------------
\* the same on_event run in a sandbox that has seen no event before
FreshRun ==
    Run(wcall.prog, WASM_EVENT_FUEL,
        IF wcall.image.some THEN SetImage(NoImageState, wcall.image.val) ELSE NoImageState)

\* C31: on_event of a WASM plugin answers ModifiedImage only if the event
\* carried an image and the module made an in-bounds set_pixel during this
\* call, and the image returned is the event's image with this call's writes;
\* for PreCapture, PostSave and PostUpload the answer is never ModifiedImage,
\* and nothing an earlier event left behind (image bytes, modified flag) is
\* read or returned in a later one.
C31_NoStaleImage ==
    wcall.name = "on_event" =>
        /\ wcall.response = "ModifiedImage" =>
              /\ wcall.kind \in ImageKinds
              /\ FreshRun.st.modified
              /\ wcall.out_image =
                    Some(RgbaImage(wcall.image.val.width, wcall.image.val.height,
                                   FreshRun.st.image_data.val))
        /\ wcall.kind \notin ImageKinds => wcall.response # "ModifiedImage"
        /\ wcall.reads = FreshRun.reads

\* an on_event call whose event image was stored, and the pixel calls of its run
StoredImage == wcall.name = "on_event" /\ wcall.image.some /\ ~Rejected(wcall.image.val)
PixelCalls == {k \in DOMAIN wcall.prog : wcall.prog[k].op \in {"get_pixel", "set_pixel"}}
\* (x, y), as unsigned 32-bit values, is not a position of the w x h image
OutsideImage(x, y, w, h) == x < 0 \/ x >= w \/ y < 0 \/ y >= h

\* C32: with an image of width w and height h stored, get_pixel(x, y) returns
\* 0 and set_pixel(x, y, v) changes no byte and does not raise the modified
\* flag whenever x >= w or y >= h, for any 32-bit x and y: a coordinate
\* outside the image reads and writes no pixel at another position.
C32_OutsideIsInert ==
    (/\ StoredImage
     /\ Len(wcall.prog) = 2
     /\ PixelCalls = {1}
     /\ OutsideImage(wcall.prog[1].x, wcall.prog[1].y, wcall.image.val.width, wcall.image.val.height)) =>
        /\ wcall.prog[1].op = "get_pixel" => wcall.reads = <<0>>
        /\ sandbox.state.image_data = Some(wcall.image.val.raw)
        /\ ~sandbox.state.modified

\* C33: for every stored image and all 32-bit x and y a module passes, the
\* index (y * image_width + x) * 4 that get_pixel and set_pixel compute stays
\* within the unsigned 32-bit range: it does not overflow (a panic of the host
\* in a build with overflow checks) and does not wrap modulo 2^32 onto an
\* index inside the buffer.
C33_IndexFits ==
    StoredImage =>
        /\ wcall.outcome # "host_panic"
        /\ \A k \in PixelCalls :
              ~Overflows(ExactIndex(wcall.image.val.width, wcall.prog[k].x, wcall.prog[k].y))

\* C34: a load_from_directory rejected for a duplicate id is rejected before
\* the candidate's backend exists: no plugin object was constructed for it, so
\* none is dropped and no library is released, and no callback reached it
C34_DuplicateBeforeConstruction ==
    (op.name = "load_from_directory" /\ ret = Err("DuplicatePluginId")) =>
        /\ released = <<>>
        /\ teardown = <<>>

\* C35: unload(id) returns false only when it changed nothing: after a call
\* that returned false the loaded set and the discovered set are as before it
C35_FalseChangesNothing ==
    [][ (op'.name = "unload" /\ ret'.tag = "false") => UNCHANGED <<plugins, discovered>> ]_vars

\* C36: after a dispatch that ran with the manager enabled and returned
\* something other than Cancel, every plugin that list() reports had its
\* on_event called exactly once in that dispatch
C36_ListedPluginsSawEvent ==
    (op.name = "dispatch" /\ enabled /\ ret # Cancel) =>
        \A i \in DOMAIN List(plugins, discovered) :
            Cardinality({k \in DOMAIN calls : calls[k].id = List(plugins, discovered)[i].id}) = 1

\* the pending plugins whose load failed in the step: an error for their
\* directory was collected
FailedPending(k) == \E e \in DOMAIN errors' : errors'[e].path = discovered[k].directory

\* C37: load_pending, and so every enabled dispatch in lazy mode, leaves the
\* discovered set empty; a pending plugin whose load failed is in neither set
\* afterwards (list, get and count no longer show it), and nothing but
\* load_all puts a plugin into the discovered set again
C37_PendingDrained ==
    [][ /\ (op'.name = "load_pending" \/ (op'.name = "dispatch" /\ enabled /\ lazy_loading)) =>
              /\ discovered' = <<>>
              /\ \A k \in DOMAIN discovered :
                    FailedPending(k) =>
                        /\ ~HasId(plugins', discovered[k].manifest.id)
                        /\ \A i \in DOMAIN List(plugins', discovered') :
                              List(plugins', discovered')[i].id # discovered[k].manifest.id
                        /\ Count(plugins', discovered') = Len(plugins')
        /\ Len(discovered') > Len(discovered) => op'.name = "load_all"
      ]_vars

\* C37 witness: a lazy dispatch found pending plugins, one of them failed to
\* load, and nothing is pending afterwards
C37_Witness ==
    /\ op.name = "dispatch"
    /\ enabled /\ lazy_loading
    /\ errors # <<>>
    /\ plugins # <<>>
    /\ discovered = <<>>

\* the manifests of the loaded plugins, in their order
LoadedManifests(ps) == [i \in DOMAIN ps |-> ps[i].manifest]

\* a is b with some elements left out: same elements, same relative order
RECURSIVE IsSubseq(_, _)
IsSubseq(a, b) ==
    IF a = <<>> THEN TRUE
    ELSE IF b = <<>> THEN FALSE
    ELSE IF Head(a) = Head(b) THEN IsSubseq(Tail(a), Tail(b))
    ELSE IsSubseq(a, Tail(b))

RECURSIVE WithoutId(_, _)
WithoutId(ms, id) ==
    IF ms = <<>> THEN <<>>
    ELSE IF Head(ms).id = id THEN WithoutId(Tail(ms), id)
    ELSE <<Head(ms)>> \o WithoutId(Tail(ms), id)

\* C38: dispatch and load_all remove no plugin from the loaded set and keep
\* the relative order of those in it; the loaded set shrinks only in unload(id),
\* which takes out the plugin with that id and keeps the order of the others;
\* with lazy loading off, dispatch leaves the loaded and the discovered set as
\* they were
C38_LoadedSetStable ==
    [][ /\ op'.name \in {"dispatch", "load_all"} =>
              IsSubseq(LoadedManifests(plugins), LoadedManifests(plugins'))
        /\ op'.name = "unload" =>
              LoadedManifests(plugins') = WithoutId(LoadedManifests(plugins), op'.arg)
        /\ op'.name \notin {"unload", "drop"} => Len(plugins') >= Len(plugins)
        /\ (op'.name = "dispatch" /\ ~lazy_loading) =>
              /\ LoadedManifests(plugins') = LoadedManifests(plugins)
              /\ discovered' = discovered
      ]_vars

\* C38 witness: the first of three loaded plugins was unloaded after all three
\* had seen an event
C38_Witness ==
    /\ op.name = "unload"
    /\ ret.tag = "true"
    /\ Len(plugins) = 2
    /\ \A i \in DOMAIN plugins : EventsSeen(plugins[i].handle) > 0
    /\ released # <<>>
    /\ Len(teardown) = 3
    /\ \E i \in DOMAIN released : CountOf(released[i].trace, "on_event") > 0

\* the errors PluginLoader::install_from_zip returns; every one of them differs
\* from the errors of the load or discovery that follows a successful install
InstallErrors ==
    {"ZipOpenError", "ZipExtractionError", "NoManifest", "ManifestParseError",
     "ManifestValidationError", "Incompatible"}

====
